---- MODULE Spec2Model ----
(***************************************************************************)
(* Verification model of ReaLHF: the model worker's request dispatcher     *)
(* (system/model_worker.py) and the pipeline engine                        *)
(* (impl/model/backend/pipe_engine/ds_pipe_engine.py).                     *)
(***************************************************************************)
EXTENDS Integers, Sequences, FiniteSets, TLC

(***************************************************************************)
(* Bounds of the model                                                     *)
(***************************************************************************)
MaxRequests == 4        \* requests the master sends in one run
MaxBuf == 1             \* buffer indices the master hands out
DatasetBatches == 2     \* len(self.__dataloader): batches of one epoch

(***************************************************************************)
(* Program constants                                                       *)
(***************************************************************************)
RecvBatch == 8          \* for _ in range(8) of __maybe_receive_requests
WorkBatch == 16         \* for _ in range(16) of _poll
RequestQueueSize == 8   \* queue.Queue(maxsize=8)
ReplyQueueSize == 8
ComputeQueueSize == 4   \* queue.Queue(4)

(***************************************************************************)
(* The dataflow graph of the experiment (api.config.dfg.build_graph):      *)
(* the dataset produces key "k1"; RPC "inf" (inference on model M1) reads  *)
(* k1 and produces k2; RPC "train" (train_step on model M0) reads k1, k2.  *)
(* An experiment may also have the RPC "ref" (inference on model M0), which*)
(* reads k1: self.config.model_rpcs names the RPCs of the experiment.      *)
(***************************************************************************)
Keys == {"k1", "k2"}
RpcNames == {"inf", "train", "ref"}
Models == {"M0", "M1"}                  \* ModelName(role, replica_id 0 / 1) of self.config.shards
OtherModels == {"M2"}                   \* a replica hosted by other workers only
replica_id(m) == IF m = "M0" THEN 0 ELSE IF m = "M1" THEN 1 ELSE 2
BufIdx == 0 .. (MaxBuf - 1)
Entries == BufIdx \X Keys

RpcInputKeys(rpc) == IF rpc \in {"inf", "ref"} THEN <<"k1">> ELSE <<"k1", "k2">>
RpcHandleName(rpc) == IF rpc \in {"inf", "ref"} THEN "inference" ELSE "train_step"
RpcModel(rpc) == IF rpc = "inf" THEN "M1" ELSE "M0"
OutputKeys(handle_name) == IF handle_name = "inference" THEN {"k2"} ELSE {}

ReqId(r) == <<"req", r>>
SynId(r) == <<"syn", r>>
AckId(r) == <<"ack", r>>

NoHook == [hook |-> "none", rpc_name |-> "none", buffer_indices |-> <<>>,
           from_model_name |-> "none", to_model_name |-> "none"]
DataTransferHook(rpc, b) == [NoHook EXCEPT !.hook = "data_transfer", !.rpc_name = rpc,
                                           !.buffer_indices = <<b>>]
ParamSyncHook(from, to) == [NoHook EXCEPT !.hook = "param_sync", !.from_model_name = from,
                                          !.to_model_name = to]
OffloadHook(m) == [NoHook EXCEPT !.hook = "offload", !.from_model_name = m]

Payload(r, handler, handle_name, data, pre, post) ==
    [handler |-> handler, request_id |-> ReqId(r), syn_reply_id |-> SynId(r),
     ack_reply_id |-> AckId(r), handle_name |-> handle_name, data |-> data,
     pre_hooks |-> pre, post_hooks |-> post]

AckPayload(r) ==
    [handler |-> "worker", request_id |-> AckId(r), syn_reply_id |-> <<"none", 0>>,
     ack_reply_id |-> <<"none", 0>>, handle_name |-> "ack", data |-> <<>>,
     pre_hooks |-> <<>>, post_hooks |-> <<>>]

\* what a response carries: the raw result, or {keys, seqlens, buffer_indices}
ResData(kind, keys, buffer_indices) ==
    [kind |-> kind, keys |-> keys, buffer_indices |-> buffer_indices]
NoData == ResData("none", {}, <<>>)

Reply(request_id, handle_name, data) ==
    [handler |-> "master", request_id |-> request_id, handle_name |-> handle_name,
     data |-> data]

\* The requests the master may send as its r-th request.  The master drives
\* the dataflow graph round after round: fetch, store, the "inf" RPC (or a
\* hook-only empty request), the "train" RPC; it chooses the buffer index and
\* the hooks of each request.
PostHookSeqs == {<<>>, <<OffloadHook("M1")>>,
                 <<ParamSyncHook("M1", "M0"), OffloadHook("M1")>>}
PreHookSeqs(rpc) == UNION {{<<DataTransferHook(rpc, b)>>,
                            <<ParamSyncHook("M0", "M1"), DataTransferHook(rpc, b)>>} :
                           b \in BufIdx}
RpcRequests(r, rpc) ==
    {Payload(r, RpcModel(rpc), RpcHandleName(rpc), <<>>, pre, post) :
        pre \in PreHookSeqs(rpc), post \in PostHookSeqs}
\* requests to a model outside the dataflow graph's RPCs
ModelRequests(r) ==
    {Payload(r, m, h, <<>>, <<>>, <<>>) :
        m \in Models, h \in {"initialize", "generate", "evaluate", "save"}}
MasterRequests(r) ==
    CASE (r - 1) % 4 = 0 -> {Payload(r, "__data0__", "fetch", <<>>, <<>>, <<>>)}
      [] (r - 1) % 4 = 1 -> {Payload(r, "__data0__", "store", <<b>>, <<>>, <<>>) : b \in BufIdx}
      [] (r - 1) % 4 = 2 -> RpcRequests(r, "inf")
                            \cup {Payload(r, "M0", "empty", <<>>, <<ParamSyncHook("M0", to)>>, <<>>) :
                                     to \in {"M1", "M2"}}
                            \cup ModelRequests(r)
      [] OTHER -> RpcRequests(r, "train")

VARIABLES
    next_id,              \* master: number of requests sent so far
    sent,                 \* master: the requests as sent (request number -> Payload)
    acked,                \* master: request numbers whose ACK was sent
    inbox,                \* stream master -> worker, read by stream.poll()
    posted,               \* stream worker -> master, written by stream.post()
    wpc,                  \* position inside _poll
    recv_left,            \* iterations left of the range(8) receive loop
    work_left,            \* iterations left of the range(16) work loop
    request_cache,        \* self.__request_cache
    ack_cache,            \* self.__ack_cache (its keys)
    request_queue,        \* self.__request_queue
    reply_queue,          \* self.__reply_queue
    request_sample_size,  \* self.__request_sample_size (its keys)
    data_owner_storage,   \* self.__data_owner_storage (its keys)
    data_send_record,     \* self.__data_send_record
    compute_input_queues, \* self.__compute_input_queues
    dict_sample,          \* self.__dict_sample is not None
    fetched_data,         \* self.__fetched_data is not None
    dataset,              \* the worker's dataset: __data_generator, __dataset_epoch,
                          \* __dataset_epoch_step, __dataset_global_step, and what
                          \* __dict_sample and __fetched_data hold
    model_is_handle,      \* self.__model_is_handle
    hook_log,             \* per request: the hooks and operations executed for it
    exception,            \* the exception raised in _poll and not caught, and its request
    config,               \* self.config: the RPCs of the experiment (model_rpcs) and, for
                          \* each model of self.config.shards, whether this worker's shard
                          \* is the dp-head (mp_rank 0, last pipeline stage)
    \* ---- pipeline engine, one entry per pipeline stage ----
    call,                 \* the engine method the stages run: forward, eval_batch, ...
    num_stages,           \* self.num_stages
    num_micro_batches,    \* self.num_micro_batches
    sequence_parallel,    \* self.sequence_parallel
    loss_fn_raises,       \* the micro batches on which self._loss_fn raises
    unknown_cmd_step,     \* step of pipe_schedule that starts with an instruction of a
                          \* type outside _INSTRUCTION_MAP (0: no such step)
    model_logits,         \* the logits the model computes for a micro batch at a generated
                          \* index (AnyLogits: whatever the parameters and prompts give)
    loss_fn_values,       \* the loss self._loss_fn returns for each micro batch
    caller,               \* history: max_new_tokens of the GenerationConfig as the caller
                          \* built it, and the calls that have returned to the caller
    genstep_io,           \* a call of genstep by itself: its arguments and what it returned
    generate_fn,          \* a call of the single-process generate: its arguments and locals
    train_step_fn,        \* PackedSupervisedFinetuningInterface.train_step on one Model
    worker_loop,          \* Worker.run: the worker's flags and its position in the loop
    worker_server,        \* WorkerServer.handle_requests: the queue, the responses sent
    comm_init,            \* _initialize_comm: position of every stage, tensors in flight
    gconfig,              \* the caller's GenerationConfig object of each stage
    epc,                  \* position of each stage inside the engine method
    mode,                 \* _generate_mode, _train_mode, _inference_mode, _compute_loss
    step_idx,             \* number of schedule steps taken from the generator
    cmd_idx,              \* index of the next instruction of the current step
    comm_part,            \* 0: the tensor, 1: the terminate flag of a send or receive
    will_break,           \* will_break of _exec_schedule
    burn_out_steps,       \* burn_out_steps of _exec_schedule
    step_count,           \* self.step_count
    tensor_buffer,        \* self.tensor_buffer: the (tag, micro batch) entries present
    terminate,            \* value of tensor_buffer["terminate"]
    kv_cache_reserved,    \* value of tensor_buffer["kv_cache_reserved"]
    generated_idx,        \* value of tensor_buffer["generated_idx"]
    first_token,          \* value of tensor_buffer["first_token"]
    unfinished_sequences, \* value of tensor_buffer["unfinished_sequences"]
    cache_seqlens,        \* ys[i].cache_seqlens, relative to the prompt length
    kv_cache,             \* the memory y.k_cache and y.v_cache of a micro batch's layers
                          \* are views of: regions of the process-wide memory buffer
    gen_token_ph,         \* value of tensor_buffer["gen_token_ph"]
    gen_tokens,           \* the gen_tokens generate has returned, per micro batch
    losses,               \* value of tensor_buffer["losses"]
    stats,                \* value of tensor_buffer["stats"] (one key)
    avg_ret,              \* (avg_loss, avg_stats) as eval_batch or train_batch returned them
    activation_grad,      \* micro batches whose "activation" buffer has a .grad
    written,              \* history: entries written to the tensor buffer in this call
    exec_log,             \* history: the instructions executed by each stage
    term_step             \* history: step_count when terminate_condition first held

mvars == <<next_id, sent, acked>>
svars == <<inbox, posted>>
wvars == <<wpc, recv_left, work_left, request_cache, ack_cache, request_queue, reply_queue,
           request_sample_size, data_owner_storage, data_send_record,
           compute_input_queues, dict_sample, fetched_data, dataset, model_is_handle,
           hook_log, exception>>
callvars == <<call, num_stages, num_micro_batches, sequence_parallel, loss_fn_raises,
              unknown_cmd_step, model_logits, loss_fn_values, caller, config>>
unitvars == <<train_step_fn, worker_loop, worker_server, comm_init>>
cvars == <<callvars, genstep_io, generate_fn, unitvars>>
runvars == <<gconfig, epc, mode, step_idx, cmd_idx, comm_part, will_break, burn_out_steps,
             step_count, tensor_buffer, terminate, kv_cache_reserved, generated_idx,
             first_token, unfinished_sequences, cache_seqlens, kv_cache, gen_token_ph,
             gen_tokens, losses, stats, avg_ret, activation_grad, written, exec_log, term_step>>
evars == <<cvars, runvars>>
vars == <<mvars, svars, wvars, evars>>

ReqNo(request) == request.request_id[2]

\* self.data2required_rpc_names, as build_graph derives it from the input keys of the RPCs
data2required_rpc_names ==
    [k \in Keys |-> {rpc \in config.model_rpcs :
                        \E i \in 1 .. Len(RpcInputKeys(rpc)) : RpcInputKeys(rpc)[i] = k}]

\* the worker of the experiment "inf", "train" that holds the dp-head shard of both models
DefaultConfig == [model_rpcs |-> {"inf", "train"}, dp_head |-> [m \in Models |-> TRUE]]

(***************************************************************************)
(* The dataset of the worker that holds the dp-head shard of the source    *)
(* RPC's model.  A batch is one packed sample of one sequence; it is named *)
(* by its position in the data loader.                                     *)
(***************************************************************************)
\* every shard taken for a dp-head
is_dp_head_Always(model_name) == TRUE

\* self._is_dp_head of the handler's model on this worker (tp 0, last pipeline stage)
is_dp_head(model_name) == config.dp_head[model_name]

src_rpc_model_name == RpcModel("inf")

\* self.__has_dataset
has_dataset == is_dp_head(src_rpc_model_name)

\* hook_data["producer_names"][k]: the dataset's keys are produced under the
\* model of the source RPC, k2 by the RPC "inf"
producer_name(k) == IF k = "k1" THEN src_rpc_model_name ELSE RpcModel("inf")

\* "bcast_src == dist.get_rank()" and "producer_is_dp_head": this worker holds
\* the tensor of key k and broadcasts it; otherwise it receives the broadcast
producer_is_dp_head(k) == is_dp_head(producer_name(k))

NoSample == <<>>      \* None

\* enumerate(self.__dataloader)
EnumerateDataloader == [i \in 1 .. DatasetBatches |-> <<i - 1, i>>]

\* __prefetch_from_dataset that keeps the epoch counter when it restarts the loader
prefetch_from_dataset_SameEpoch(d) ==
    IF d.dict_sample # NoSample THEN d
    ELSE IF d.data_generator # <<>>
         THEN [d EXCEPT !.epoch_step = Head(d.data_generator)[1],
                        !.dict_sample = <<Head(d.data_generator)[2]>>,
                        !.data_generator = Tail(@)]
         ELSE [d EXCEPT !.data_generator = Tail(EnumerateDataloader),
                        !.epoch_step = Head(EnumerateDataloader)[1],
                        !.dict_sample = <<Head(EnumerateDataloader)[2]>>]

\* __prefetch_from_dataset
prefetch_from_dataset(d) ==
    IF d.dict_sample # NoSample THEN d
    ELSE IF d.data_generator # <<>>                            \* next(self.__data_generator)
         THEN [d EXCEPT !.epoch_step = Head(d.data_generator)[1],
                        !.dict_sample = <<Head(d.data_generator)[2]>>,
                        !.data_generator = Tail(@)]
         ELSE [d EXCEPT !.epoch = @ + 1,                       \* except StopIteration
                        !.data_generator = Tail(EnumerateDataloader),
                        !.epoch_step = Head(EnumerateDataloader)[1],
                        !.dict_sample = <<Head(EnumerateDataloader)[2]>>]

\* api.data.DataBatch(data, epoch, epoch_step, global_step), the result of fetch
DataBatch(d) ==
    [kind |-> "databatch", keys |-> {"k1"}, buffer_indices |-> <<>>,
     data |-> d.dict_sample, epoch |-> d.epoch, epoch_step |-> d.epoch_step,
     global_step |-> d.global_step]

\* the fetch branch without "self.__dataset_global_step += 1"
fetch_SameStep(d) == [d EXCEPT !.fetched_data = d.dict_sample, !.dict_sample = NoSample]

\* the fetch branch of __model_poll_step
fetch(d) == [d EXCEPT !.fetched_data = d.dict_sample, !.dict_sample = NoSample,
                      !.global_step = @ + 1]

\* the store branch of __model_poll_step
store(d) == [d EXCEPT !.fetched_data = NoSample]

(***************************************************************************)
(* ModelWorker.__lazy_setup                                                *)
(***************************************************************************)
lazy_setup ==
    /\ request_cache = <<>>
    /\ ack_cache = {}
    /\ request_queue = <<>>
    /\ reply_queue = <<>>
    /\ request_sample_size = {}
    /\ data_owner_storage = {}
    /\ data_send_record = [e \in {} |-> {}]
    /\ compute_input_queues = [h \in {"train_step", "inference", "generate", "evaluate"} |-> <<>>]
    /\ dict_sample = FALSE
    /\ fetched_data = FALSE
    /\ dataset = [data_generator |-> <<>>, epoch |-> -1, epoch_step |-> 0, global_step |-> 0,
                  dict_sample |-> NoSample, fetched_data |-> NoSample]
    /\ model_is_handle = [m \in Models |-> replica_id(m) # 0]


(***************************************************************************)
(* The master (its code is outside the repository's sources): it sends     *)
(* requests, and the ACK of a request after that request's SYN.            *)
(***************************************************************************)

MasterSendRequest ==
    /\ UNCHANGED evars
    /\ next_id < MaxRequests
    /\ \E req \in MasterRequests(next_id + 1) :
          /\ inbox' = Append(inbox, req)
          /\ sent' = Append(sent, req)
    /\ next_id' = next_id + 1
    /\ UNCHANGED <<acked, posted, wvars>>

MasterSendAck ==
    /\ UNCHANGED evars
    /\ \E r \in 1 .. next_id :
          /\ r \notin acked
          /\ \E i \in 1 .. Len(posted) :
                posted[i].handle_name = "syn" /\ posted[i].request_id = SynId(r)
          /\ inbox' = Append(inbox, AckPayload(r))
          /\ acked' = acked \cup {r}
    /\ UNCHANGED <<next_id, sent, posted, wvars>>

(***************************************************************************)
(* ModelWorker.__maybe_receive_one_request: the effect of one stream.poll()*)
(* on <<inbox, posted, request_cache, ack_cache>>.                         *)
(***************************************************************************)
maybe_receive_one_request ==
    IF inbox = <<>>
    THEN UNCHANGED <<inbox, posted, request_cache, ack_cache>>   \* NoMessage
    ELSE LET r == Head(inbox) IN
         /\ inbox' = Tail(inbox)
         /\ IF r.handle_name = "ack"
            THEN /\ ack_cache' = ack_cache \cup {r.request_id}
                 /\ UNCHANGED <<posted, request_cache>>
            ELSE /\ posted' = Append(posted, Reply(r.syn_reply_id, "syn", NoData))
                 /\ request_cache' = Append(request_cache, r)
                 /\ UNCHANGED ack_cache

\* request.ack_reply_id in self.__ack_cache
AckPresent_NoCheck(request) == TRUE
AckPresent(request) == request.ack_reply_id \in ack_cache

(***************************************************************************)
(* ModelWorker.__data_transfer_among_workers on a worker that hosts the     *)
(* target (receiver).  For the keys whose producer's dp-head it is, the    *)
(* worker is the sender (bcast_src is its own rank); the other keys arrive *)
(* by broadcast.  st: storage keys, rec: send record.                      *)
(***************************************************************************)
\* not set(self.data2required_rpc_names[k]).difference(self.__data_send_record[(buf_idx, k)])
AllReceived_Any(k, names) == names # {}
AllReceived(k, names) == data2required_rpc_names[k] \ names = {}

RecordOf(rec, e) == IF e \in DOMAIN rec THEN rec[e] ELSE {}
RecordPut(rec, e, names) == [x \in DOMAIN rec \cup {e} |-> IF x = e THEN names ELSE rec[x]]
RecordPop(rec, e) == [x \in DOMAIN rec \ {e} |-> rec[x]]

\* the sender's loop body for one (buf_idx, k)
SendOne(e, rpc_name, st, rec) ==
    LET names == RecordOf(rec, e) \cup {rpc_name} IN
    IF AllReceived(e[2], names)
    THEN [storage |-> st \ {e}, record |-> RecordPop(rec, e)]
    ELSE [storage |-> st, record |-> RecordPut(rec, e, names)]

RECURSIVE TransferEntries(_, _, _, _)
TransferEntries(es, rpc_name, st, rec) ==
    IF es = <<>> THEN [ok |-> TRUE, storage |-> st, record |-> rec]
    ELSE IF Head(es) \notin st
         THEN [ok |-> FALSE, storage |-> st, record |-> rec]       \* KeyError
         ELSE LET one == SendOne(Head(es), rpc_name, st, rec) IN
              TransferEntries(Tail(es), rpc_name, one.storage, one.record)

RECURSIVE HookEntries(_, _)
HookEntries(keys, buffer_indices) ==
    IF keys = <<>> THEN <<>>
    ELSE [i \in 1 .. Len(buffer_indices) |-> <<buffer_indices[i], Head(keys)>>]
         \o HookEntries(Tail(keys), buffer_indices)

data_transfer_among_workers(hook_data, st, rec, queues) ==
    LET es == HookEntries(SelectSeq(RpcInputKeys(hook_data.rpc_name), producer_is_dp_head),
                          hook_data.buffer_indices)
        t == TransferEntries(es, hook_data.rpc_name, st, rec)
        h == RpcHandleName(hook_data.rpc_name)
        full == Len(queues[h]) >= ComputeQueueSize
    IN  [ok |-> t.ok /\ ~full,
         storage |-> t.storage,
         record |-> t.record,
         queues |-> IF t.ok /\ ~full
                    THEN [queues EXCEPT ![h] = Append(@, [rpc_name |-> hook_data.rpc_name,
                                                  buffer_indices |-> hook_data.buffer_indices])]
                    ELSE queues,
         handle |-> model_is_handle]

(***************************************************************************)
(* ModelWorker.__handle_one_rpc_hook                                       *)
(***************************************************************************)
\* the param_sync branch without "self.__model_is_handle[from_model_name] = True"
param_sync_status_KeepFrom(hook) ==
    [m \in Models |-> IF m = hook.to_model_name THEN FALSE ELSE model_is_handle[m]]

\* the param_sync branch: self.__model_is_handle after it
param_sync_status(hook) ==
    [m \in Models |-> IF m = hook.to_model_name THEN FALSE
                      ELSE IF m = hook.from_model_name THEN TRUE
                      ELSE model_is_handle[m]]

handle_one_rpc_hook(hook) ==
    IF hook.hook = "data_transfer"
    THEN data_transfer_among_workers(hook, data_owner_storage, data_send_record,
                                     compute_input_queues)
    ELSE [ok |-> hook.hook \in {"param_sync", "offload"},
          storage |-> data_owner_storage,
          record |-> data_send_record,
          queues |-> compute_input_queues,
          handle |-> IF hook.hook = "param_sync" THEN param_sync_status(hook)
                     ELSE model_is_handle]

\* an exception leaves _poll: Worker.run sets the status ERROR and re-raises
Exception(type, r) == [type |-> type, request |-> r]
NoException == Exception("none", 0)

OpEvent(handle_name) == [NoHook EXCEPT !.hook = "op", !.rpc_name = handle_name]
ReplyEvent == [NoHook EXCEPT !.hook = "reply"]

Item(request, handled, res) == [request |-> request, handled |-> handled, res |-> res]

\* request.pre_hooks.pop(0) / request.post_hooks.pop(0): <<the hook, the rest>>
PopHook_Last(hooks) == <<hooks[Len(hooks)], SubSeq(hooks, 1, Len(hooks) - 1)>>
PopHook(hooks) == <<Head(hooks), Tail(hooks)>>

(***************************************************************************)
(* _poll, up to the work loop                                              *)
(***************************************************************************)
PollStart ==
    /\ UNCHANGED evars
    /\ wpc = "idle"
    /\ IF has_dataset                            \* __prefetch_from_dataset
       THEN /\ dict_sample' = TRUE
            /\ dataset' = prefetch_from_dataset(dataset)
       ELSE UNCHANGED <<dict_sample, dataset>>
    /\ wpc' = "recv"
    /\ recv_left' = RecvBatch
    /\ UNCHANGED <<mvars, svars, work_left, request_cache, ack_cache, request_queue,
                   reply_queue, request_sample_size, data_owner_storage, data_send_record,
                   compute_input_queues, fetched_data, model_is_handle, hook_log, exception>>

\* one iteration of "for _ in range(8): self.__maybe_receive_one_request()"
ReceiveLoop ==
    /\ UNCHANGED evars
    /\ wpc = "recv"
    /\ maybe_receive_one_request
    /\ recv_left' = recv_left - 1
    /\ wpc' = IF recv_left = 1 THEN "promote" ELSE "recv"
    /\ UNCHANGED <<mvars, work_left, request_queue, reply_queue, request_sample_size,
                   data_owner_storage, data_send_record, compute_input_queues, dict_sample,
                   fetched_data, dataset, model_is_handle, hook_log, exception>>

\* "while request.ack_reply_id not in self.__ack_cache: self.__maybe_receive_one_request()"
PromoteWait ==
    /\ UNCHANGED evars
    /\ wpc = "promote"
    /\ request_cache # <<>>
    /\ ~AckPresent(Head(request_cache))
    /\ maybe_receive_one_request
    /\ UNCHANGED <<mvars, wpc, recv_left, work_left, request_queue, reply_queue,
                   request_sample_size, data_owner_storage, data_send_record,
                   compute_input_queues, dict_sample, fetched_data, dataset, model_is_handle, hook_log,
           exception>>

\* the ACK is there: pop both and put the request into the work queue
PromoteOne ==
    /\ UNCHANGED evars
    /\ wpc = "promote"
    /\ request_cache # <<>>
    /\ AckPresent(Head(request_cache))
    /\ LET request == Head(request_cache) IN
       /\ ack_cache' = ack_cache \ {request.ack_reply_id}
       /\ request_cache' = Tail(request_cache)
       /\ IF Len(request_queue) >= RequestQueueSize
          THEN /\ wpc' = "crashed"                                  \* queue.Full
               /\ exception' = Exception("queue.Full", ReqNo(request))
               /\ UNCHANGED request_queue
          ELSE /\ request_queue' = Append(request_queue, Item(request, FALSE, NoData))
               /\ UNCHANGED <<wpc, exception>>
    /\ UNCHANGED <<mvars, svars, recv_left, work_left, reply_queue, request_sample_size,
                   data_owner_storage, data_send_record, compute_input_queues, dict_sample,
                   fetched_data, dataset, model_is_handle, hook_log>>

PromoteDone ==
    /\ UNCHANGED evars
    /\ wpc = "promote"
    /\ request_cache = <<>>
    /\ wpc' = "work"
    /\ work_left' = WorkBatch
    /\ UNCHANGED <<mvars, svars, recv_left, request_cache, ack_cache, request_queue,
                   reply_queue, request_sample_size, data_owner_storage, data_send_record,
                   compute_input_queues, dict_sample, fetched_data, dataset, model_is_handle, hook_log,
           exception>>

(***************************************************************************)
(* The operation branch of ModelWorker.__model_poll_step: outcome "ok",    *)
(* "error" (an assertion or exception) or "empty" (queue.Empty raised by   *)
(* get_nowait on the per-operation input queue).                           *)
(***************************************************************************)
OpResult(outcome, res, st, queues, fetched, sample) ==
    [outcome |-> outcome, res |-> res, storage |-> st, queues |-> queues,
     fetched |-> fetched, sample |-> sample]

OpUnchanged(outcome, res) ==
    OpResult(outcome, res, data_owner_storage, compute_input_queues, fetched_data, dict_sample)

\* self.__model_is_handle[request.handler.model_name]
IsHandle_Never(request) == FALSE
IsHandle(request) == model_is_handle[request.handler]

\* the requests whose branch starts with "assert not self.__model_is_handle[...]"
ComputeHandleNames == {"initialize", "inference", "train_step", "generate", "evaluate", "save"}
\* the requests that take their input from self.__compute_input_queues
QueuedHandleNames == {"inference", "train_step", "generate"}

\* the result of the interface's function
InterfaceResult(h, queues) ==
    CASE h \in {"inference", "generate"} ->
            ResData("namedarray", OutputKeys(h), Head(queues[h]).buffer_indices)
      [] h \in {"train_step", "evaluate"} -> ResData("dict", {}, <<>>)
      [] OTHER -> NoData

\* user_raises: the interface's function (or the loss function it runs) raises
ExecOperation(request, user_raises) ==
    LET h == request.handle_name IN
    CASE h = "empty" -> OpUnchanged("ok", NoData)
      [] h = "fetch" ->
            IF fetched_data \/ ~dict_sample
            THEN OpUnchanged("AssertionError", NoData)
            ELSE OpResult("ok", DataBatch(dataset), data_owner_storage,
                          compute_input_queues, TRUE, FALSE)
      [] h = "store" ->
            IF ~fetched_data \/ Len(request.data) # 1
            THEN OpUnchanged("AssertionError", NoData)
            ELSE OpResult("ok", NoData,
                          data_owner_storage \cup {<<request.data[1], "k1">>},
                          compute_input_queues, FALSE, dict_sample)
      [] h \in ComputeHandleNames ->
            IF IsHandle(request)
            THEN OpUnchanged("AssertionError", NoData)
            ELSE IF h = "initialize"
            THEN OpUnchanged("ok", NoData)
            ELSE IF h \in QueuedHandleNames /\ compute_input_queues[h] = <<>>
            THEN OpUnchanged("empty", NoData)
            ELSE OpResult(IF user_raises THEN "UserCodeError" ELSE "ok",
                          IF user_raises THEN NoData
                          ELSE InterfaceResult(h, compute_input_queues),
                          data_owner_storage,
                          IF h \in QueuedHandleNames
                          THEN [compute_input_queues EXCEPT ![h] = Tail(@)]
                          ELSE compute_input_queues,
                          fetched_data, dict_sample)
      [] OTHER -> OpUnchanged("NotImplementedError", NoData)

(***************************************************************************)
(* One iteration of the work loop of _poll: get_nowait and                 *)
(* ModelWorker.__model_poll_step                                           *)
(***************************************************************************)
RunHook(r, hook, requeued, rest) ==
    LET h == handle_one_rpc_hook(hook) IN
    /\ hook_log' = [hook_log EXCEPT ![r] = Append(@, hook)]
    /\ data_owner_storage' = h.storage
    /\ data_send_record' = h.record
    /\ compute_input_queues' = h.queues
    /\ model_is_handle' = h.handle
    /\ IF h.ok
       THEN /\ request_queue' = Append(rest, requeued)
            /\ work_left' = work_left - 1
            /\ UNCHANGED <<wpc, exception>>
       ELSE /\ request_queue' = rest
            /\ wpc' = "crashed"        \* KeyError, queue.Full or NotImplementedError
            /\ exception' = Exception("HookError", r)
            /\ UNCHANGED work_left
    /\ UNCHANGED <<reply_queue, request_sample_size, fetched_data, dataset, dict_sample>>

\* the handled request leaves the work queue and its result is forgotten
QueueReply_Drops(r, request, res, rest) ==
    /\ request_queue' = rest
    /\ work_left' = work_left - 1
    /\ UNCHANGED <<wpc, exception, reply_queue, request_sample_size, hook_log,
                   data_owner_storage, data_send_record, compute_input_queues,
                   model_is_handle, fetched_data, dataset, dict_sample>>

QueueReply(r, request, res, rest) ==
    /\ request_queue' = rest
    /\ IF Len(reply_queue) >= ReplyQueueSize
       THEN /\ wpc' = "crashed"                                     \* queue.Full
            /\ exception' = Exception("queue.Full", r)
            /\ UNCHANGED <<reply_queue, request_sample_size, hook_log, work_left>>
       ELSE /\ reply_queue' = Append(reply_queue, [request |-> request, res |-> res])
            /\ request_sample_size' = request_sample_size \cup {request.request_id}
            /\ hook_log' = [hook_log EXCEPT ![r] = Append(@, ReplyEvent)]
            /\ work_left' = work_left - 1
            /\ UNCHANGED <<wpc, exception>>
    /\ UNCHANGED <<data_owner_storage, data_send_record, compute_input_queues,
                   model_is_handle, fetched_data, dataset, dict_sample>>

RunOperation(r, request, rest, user_raises) ==
    LET o == ExecOperation(request, user_raises) IN
    /\ data_owner_storage' = o.storage
    /\ compute_input_queues' = o.queues
    /\ fetched_data' = o.fetched
    /\ dict_sample' = o.sample
    /\ dataset' = IF o.outcome # "ok" THEN dataset
                  ELSE IF request.handle_name = "fetch" THEN fetch(dataset)
                  ELSE IF request.handle_name = "store" THEN store(dataset)
                  ELSE dataset
    /\ CASE o.outcome = "ok" ->
              /\ hook_log' = [hook_log EXCEPT ![r] = Append(@, OpEvent(request.handle_name))]
              /\ request_queue' = Append(rest, Item(request, TRUE, o.res))
              /\ work_left' = work_left - 1
              /\ UNCHANGED <<wpc, exception>>
         [] o.outcome = "empty" ->                \* except queue.Empty: break
              /\ request_queue' = rest
              /\ wpc' = "post"
              /\ UNCHANGED <<hook_log, work_left, exception>>
         [] OTHER ->                              \* no handler up to Worker.run
              /\ request_queue' = rest
              /\ wpc' = "crashed"
              /\ exception' = Exception(o.outcome, r)
              /\ UNCHANGED <<hook_log, work_left>>
    /\ UNCHANGED <<data_send_record, model_is_handle, reply_queue, request_sample_size>>

model_poll_step(item, rest, user_raises) ==
    LET request == item.request
        r == ReqNo(request)
    IN  IF Len(request.pre_hooks) > 0
        THEN LET p == PopHook(request.pre_hooks) IN
             RunHook(r, p[1], Item([request EXCEPT !.pre_hooks = p[2]], FALSE, NoData), rest)
        ELSE IF item.handled /\ Len(request.post_hooks) > 0
        THEN LET p == PopHook(request.post_hooks) IN
             RunHook(r, p[1], Item([request EXCEPT !.post_hooks = p[2]], TRUE, item.res), rest)
        ELSE IF item.handled
        THEN QueueReply(r, request, item.res, rest)
        ELSE RunOperation(r, request, rest, user_raises)

WorkStep ==
    /\ UNCHANGED evars
    /\ wpc = "work"
    /\ work_left > 0
    /\ request_queue # <<>>
    /\ \E user_raises \in BOOLEAN :
          model_poll_step(Head(request_queue), Tail(request_queue), user_raises)
    /\ UNCHANGED <<mvars, svars, recv_left, request_cache, ack_cache>>

\* the range(16) is used up, or get_nowait raised queue.Empty
WorkDone ==
    /\ UNCHANGED evars
    /\ wpc = "work"
    /\ work_left = 0 \/ request_queue = <<>>
    /\ wpc' = "post"
    /\ UNCHANGED <<mvars, svars, recv_left, work_left, request_cache, ack_cache,
                   request_queue, reply_queue, request_sample_size, data_owner_storage,
                   data_send_record, compute_input_queues, dict_sample, fetched_data, dataset,
                   model_is_handle, hook_log, exception>>

(***************************************************************************)
(* ModelWorker.__post_one_response and __maybe_post_responses              *)
(***************************************************************************)
post_one_response(request, res) ==
    /\ posted' = Append(posted, Reply(request.request_id, request.handle_name, res))
    /\ data_owner_storage' =
          IF res.kind = "namedarray" /\ request.handler \in Models /\ is_dp_head(request.handler)
          THEN data_owner_storage \cup
                 {<<res.buffer_indices[i], k>> : i \in 1 .. Len(res.buffer_indices), k \in res.keys}
          ELSE data_owner_storage

maybe_post_responses ==
    /\ UNCHANGED evars
    /\ wpc = "post"
    /\ IF reply_queue = <<>>
       THEN UNCHANGED <<posted, data_owner_storage, reply_queue, request_sample_size>>
       ELSE LET e == Head(reply_queue) IN
            /\ reply_queue' = Tail(reply_queue)
            /\ post_one_response(e.request, e.res)
            /\ request_sample_size' = request_sample_size \ {e.request.request_id}
    /\ wpc' = "idle"
    /\ UNCHANGED <<mvars, inbox, recv_left, work_left, request_cache, ack_cache,
                   request_queue, data_send_record, compute_input_queues, dict_sample,
                   fetched_data, dataset, model_is_handle, hook_log, exception>>



(***************************************************************************)
(* Properties of the request dispatcher                                    *)
(***************************************************************************)
IsPrefix(a, b) == Len(a) <= Len(b) /\ SubSeq(b, 1, Len(a)) = a

\* what is executed for request r when nothing fails, in order
ExpectedLog(r) ==
    sent[r].pre_hooks \o <<OpEvent(sent[r].handle_name)>> \o sent[r].post_hooks
    \o <<ReplyEvent>>

RepliesQueued(r) ==
    Cardinality({i \in 1 .. Len(reply_queue) : reply_queue[i].request.request_id = ReqId(r)})
RepliesPosted(r) ==
    Cardinality({i \in 1 .. Len(posted) :
                    posted[i].handle_name # "syn" /\ posted[i].request_id = ReqId(r)})
TotalLogged == LET RECURSIVE Sum(_)
                   Sum(n) == IF n = 0 THEN 0 ELSE Len(hook_log[n]) + Sum(n - 1)
               IN Sum(MaxRequests)

C1_Order ==
    \A r \in 1 .. MaxRequests :
       IF r > next_id THEN hook_log[r] = <<>>
       ELSE /\ IsPrefix(hook_log[r], ExpectedLog(r))
            /\ RepliesQueued(r) + RepliesPosted(r) =
                  (IF hook_log[r] = ExpectedLog(r) THEN 1 ELSE 0)

C1_OnePerStep == TotalLogged' <= TotalLogged + 1

\* C1: for every request taken from the work queue the pre-hooks run one per
\* step in list order, then the operation once, then the post-hooks one per
\* step in list order, and only then one response is queued; no pre-hook runs
\* after the operation and no post-hook before it.
C1_HooksThenOperationThenReply == [] C1_Order /\ [][C1_OnePerStep]_vars

\* a request with two pre-hooks and two post-hooks has gone through all of it
C1_Witness ==
    \E r \in 1 .. next_id :
       /\ Len(sent[r].pre_hooks) = 2
       /\ Len(sent[r].post_hooks) = 2
       /\ hook_log[r] = ExpectedLog(r)
       /\ RepliesPosted(r) = 1

SynCount(r) ==
    Cardinality({i \in 1 .. Len(posted) :
                    posted[i].handle_name = "syn" /\ posted[i].request_id = SynId(r)})
InInbox(id) == \E i \in 1 .. Len(inbox) : inbox[i].request_id = id
InCache(r) == \E i \in 1 .. Len(request_cache) : request_cache[i].request_id = ReqId(r)
InWorkQueue(r) ==
    \E i \in 1 .. Len(request_queue) : request_queue[i].request.request_id = ReqId(r)
Started(r) == InWorkQueue(r) \/ hook_log[r] # <<>>

C2_State ==
    \A r \in 1 .. next_id :
       /\ SynCount(r) = (IF InInbox(ReqId(r)) THEN 0 ELSE 1)
       /\ Started(r) => /\ r \in acked
                         /\ ~InInbox(AckId(r))
                         /\ AckId(r) \notin ack_cache
                         /\ ~InCache(r)

C2_Promotion ==
    \A r \in 1 .. next_id :
       (InCache(r) /\ ~InCache(r)') =>
          /\ Head(request_cache).request_id = ReqId(r)
          /\ \A q \in 1 .. (r - 1) : ~InCache(q) /\ ~InInbox(ReqId(q))
          /\ AckId(r) \in ack_cache
          /\ AckId(r) \notin ack_cache'
          /\ wpc' # "crashed" =>
                /\ request_queue' = Append(request_queue, Item(sent[r], FALSE, NoData))
                /\ hook_log[r] = <<>>

\* C2: every non-ack message is answered with exactly one SYN on its
\* syn_reply_id; a request enters the work queue only after the ACK carrying
\* its ack_reply_id was received; requests are promoted in arrival order and
\* the ACK is consumed by the promotion.
C2_Handshake == [] C2_State /\ [][C2_Promotion]_vars

\* the ACK of the second request was received before the ACK of the first, and
\* the first request has still been promoted first
C2_Witness ==
    /\ next_id >= 2
    /\ InWorkQueue(1)
    /\ InCache(2)
    /\ AckId(2) \in ack_cache
    /\ SynCount(2) = 1

\* the hook that the next work-loop iteration executes, if it executes one
CurHook ==
    IF wpc = "work" /\ work_left > 0 /\ request_queue # <<>>
    THEN LET item == Head(request_queue) IN
         IF Len(item.request.pre_hooks) > 0 THEN Head(item.request.pre_hooks)
         ELSE IF item.handled /\ Len(item.request.post_hooks) > 0
              THEN Head(item.request.post_hooks)
              ELSE NoHook
    ELSE NoHook

CurEntries == HookEntries(RpcInputKeys(CurHook.rpc_name), CurHook.buffer_indices)

\* the data-transfer hook of this step reaches entry e (no KeyError before it)
Transferred(e) ==
    /\ CurHook.hook = "data_transfer"
    /\ hook_log' # hook_log
    /\ \E i \in 1 .. Len(CurEntries) :
          /\ CurEntries[i] = e
          /\ \A j \in 1 .. i : CurEntries[j] \in data_owner_storage

C3_Step ==
    \A e \in Entries :
       LET names == RecordOf(data_send_record, e) \cup {CurHook.rpc_name}
           complete == data2required_rpc_names[e[2]] \subseteq names
       IN  /\ (e \in data_owner_storage /\ e \notin data_owner_storage') =>
                 (Transferred(e) /\ complete)
           /\ Transferred(e) =>
                 IF complete
                 THEN e \notin data_owner_storage' /\ e \notin DOMAIN data_send_record'
                 ELSE /\ e \in data_owner_storage'
                      /\ e \in DOMAIN data_send_record'
                      /\ data_send_record'[e] = names
           /\ (e \in DOMAIN data_send_record /\ e \notin DOMAIN data_send_record') =>
                 e \notin data_owner_storage'

C3_State ==
    \A e \in DOMAIN data_send_record :
       /\ e \in data_owner_storage
       /\ ~(data2required_rpc_names[e[2]] \subseteq data_send_record[e])

\* C3: a storage entry (buffer_idx, key) is dropped exactly at the transfer
\* that makes its send record contain every RPC name required for the key,
\* never while a required RPC has not received it, and its send record is
\* dropped with it.
C3_OwnershipFreeing == [] C3_State /\ [][C3_Step]_vars

Logged(r, hook) == \E i \in 1 .. Len(hook_log[r]) : hook_log[r][i] = hook

\* k1 of buffer 0 went to "inf" and then to "train" and is gone, while k2,
\* produced by "inf" in between, went to "train" and is gone too
C3_Witness ==
    /\ next_id >= 4
    /\ Logged(3, DataTransferHook("inf", 0))
    /\ Logged(4, DataTransferHook("train", 0))
    /\ Logged(4, OpEvent("train_step"))
    /\ data_owner_storage = {}
    /\ DOMAIN data_send_record = {}

(***************************************************************************)
(*                                                                         *)
(* The pipeline engine (DeepSpeedPipelineEngine)                           *)
(*                                                                         *)
(***************************************************************************)

(***************************************************************************)
(* Bounds of the engine model                                              *)
(***************************************************************************)
FaultStages == 3            \* stages of the runs with a fault
MaxFaultMicroBatches == 2   \* micro batches of the runs with a fault
MaxUnknownStep == 4         \* latest schedule step that may hold an unknown instruction
MaxStages == 3          \* pipeline stages of a run: 2 .. MaxStages
MaxMicroBatches == 3    \* micro batches of a call: 1 .. MaxMicroBatches
MaxNewTokens == 2       \* the caller's gconfig.max_new_tokens: 1 .. MaxNewTokens
MaxMinNewTokens == 1    \* the caller's gconfig.min_new_tokens: 0 .. MaxMinNewTokens

Calls == {"forward", "eval_batch", "train_batch", "generate"}
Stages == 0 .. (num_stages - 1)
MicroBatches == 0 .. (num_micro_batches - 1)

is_first_stage(s) == s = 0
is_last_stage(s) == s = num_stages - 1
prev_stage(s) == (s - 1) % num_stages
next_stage(s) == (s + 1) % num_stages

(***************************************************************************)
(* Instructions and schedules (base.topology / static_schedule): a         *)
(* schedule is the sequence of the steps (step_id, micro_batch_id, cmds)   *)
(* its generator yields for one stage.  Within a step the communication    *)
(* instructions come before the computation; even stages send before they  *)
(* receive and odd stages receive before they send; an activation is sent  *)
(* in the step after the ForwardPass that produced it.                     *)
(***************************************************************************)
Cmd(type, micro_batch_id, step_id) ==
    [type |-> type, micro_batch_id |-> micro_batch_id, step_id |-> step_id]

Step(step_id, micro_batch_id, cmds) ==
    [step_id |-> step_id, micro_batch_id |-> micro_batch_id, cmds |-> cmds]

Opt(cond, cmd) == IF cond THEN <<cmd>> ELSE <<>>

is_even(x) == x % 2 = 0

valid_micro_batch(mb, micro_batches) == 0 <= mb /\ mb < micro_batches

\* without the test that the neighbouring stage exists
valid_stage_Any(st, stages) == TRUE

valid_stage(st, stages) == 0 <= st /\ st < stages

Max(a, b) == IF a >= b THEN a ELSE b

\* InferenceSchedule: stage s runs micro batch k - s in step k.
InferenceStep(micro_batches, stages, s, k) ==
    LET mb == k - s
        send == Opt(valid_stage(s + 1, stages) /\ valid_micro_batch(mb - 1, micro_batches),
                    Cmd("SendActivation", mb - 1, k))
        recv == Opt(valid_stage(s - 1, stages) /\ valid_micro_batch(mb, micro_batches),
                    Cmd("RecvActivation", mb, k))
        comm == IF is_even(s) THEN send \o recv ELSE recv \o send
    IN  Step(k, mb, comm \o Opt(valid_micro_batch(mb, micro_batches), Cmd("ForwardPass", mb, k)))

InferenceSchedule(micro_batches, stages, s) ==
    [i \in 1 .. (micro_batches + stages - 1) |-> InferenceStep(micro_batches, stages, s, i - 1)]

\* TrainSchedule (1F1B): the micro batch of step k and whether it is a forward step.
step_to_micro_batch(stages, s, k) ==
    IF is_even(k) /\ is_even(s) THEN <<(k \div 2) - (s \div 2), TRUE>>
    ELSE IF ~is_even(k) /\ ~is_even(s) THEN <<((k - 1) \div 2) - (s \div 2), TRUE>>
    ELSE IF is_even(k) /\ ~is_even(s) THEN <<(k \div 2) - stages + ((s + 1) \div 2), FALSE>>
    ELSE <<((k - 1) \div 2) - stages + 1 + (s \div 2), FALSE>>

TrainTotalSteps(micro_batches, stages) == 2 * (micro_batches + stages - 1)

TrainStep(micro_batches, stages, s, k) ==
    LET cur == step_to_micro_batch(stages, s, k)
        mb == cur[1]
        is_forward == cur[2]
        prev_mb == IF k = 0 THEN -1 ELSE step_to_micro_batch(stages, s, k - 1)[1]
        comm == IF is_forward
                THEN Opt(valid_micro_batch(prev_mb, micro_batches) /\ valid_stage(s - 1, stages),
                         Cmd("SendGrad", prev_mb, k))
                     \o Opt(valid_micro_batch(mb, micro_batches) /\ valid_stage(s - 1, stages),
                            Cmd("RecvActivation", mb, k))
                ELSE Opt(valid_micro_batch(mb, micro_batches) /\ valid_stage(s + 1, stages),
                         Cmd("RecvGrad", mb, k))
                     \o Opt(valid_micro_batch(prev_mb, micro_batches) /\ valid_stage(s + 1, stages),
                            Cmd("SendActivation", prev_mb, k))
        comp == Opt(valid_micro_batch(mb, micro_batches),
                    Cmd(IF is_forward THEN "ForwardPass" ELSE "BackwardPass", mb, k))
        fin == IF k = TrainTotalSteps(micro_batches, stages) - 1
               THEN <<Cmd("ReduceGrads", mb, k), Cmd("OptimizerStep", mb, k)>>
               ELSE <<>>
    IN  Step(k, mb, comm \o comp \o fin)

TrainSchedule(micro_batches, stages, s) ==
    [i \in 1 .. TrainTotalSteps(micro_batches, stages) |-> TrainStep(micro_batches, stages, s, i - 1)]

\* GenerateSchedule: the stages form a ring; every stage runs one micro batch per
\* step, round robin over max(micro_batches, stages) slots, one token per round.
GenerateMaxSteps(micro_batches, stages, max_new_tokens) ==
    max_new_tokens * Max(micro_batches, stages) + stages - 1

generate_micro_batch_id(micro_batches, stages, s, k) ==
    IF k - s >= 0 THEN (k - s) % Max(micro_batches, stages) ELSE -1

generate_token_id(micro_batches, stages, s, k) ==
    IF k - s >= 0 THEN (k - s) \div Max(micro_batches, stages) ELSE -1

GenerateStep(micro_batches, stages, s, max_new_tokens, k) ==
    LET mb == generate_micro_batch_id(micro_batches, stages, s, k)
        token_id == generate_token_id(micro_batches, stages, s, k)
        last_mb == IF k = 0 THEN -1 ELSE generate_micro_batch_id(micro_batches, stages, s, k - 1)
        last_token_id == IF k = 0 THEN -1 ELSE generate_token_id(micro_batches, stages, s, k - 1)
        first_round == k < micro_batches
        cur_valid == valid_micro_batch(mb, micro_batches) /\ token_id < max_new_tokens
        send == IF s = stages - 1
                THEN Opt(valid_micro_batch(last_mb, micro_batches)
                            /\ last_token_id + 1 < max_new_tokens,
                         Cmd("SendNextTokens", last_mb, k))
                ELSE Opt(valid_micro_batch(last_mb, micro_batches)
                            /\ last_token_id < max_new_tokens,
                         Cmd("SendActivation", last_mb, k))
        recv == IF s = 0
                THEN Opt(cur_valid /\ ~first_round, Cmd("RecvNextTokens", mb, k))
                ELSE Opt(cur_valid, Cmd("RecvActivation", mb, k))
        comm == IF is_even(s) THEN send \o recv ELSE recv \o send
    IN  Step(k, mb, comm \o Opt(cur_valid, Cmd("ForwardPass", mb, k)))

GenerateSchedule(micro_batches, stages, s, max_new_tokens) ==
    [i \in 1 .. GenerateMaxSteps(micro_batches, stages, max_new_tokens) |->
        GenerateStep(micro_batches, stages, s, max_new_tokens, i - 1)]

(***************************************************************************)
(* The state one stage's handlers work on: the tensor buffer (the entries  *)
(* present and the values the model needs), the KV-cache lengths, the      *)
(* tags written so far, and whether a handler has raised.                  *)
(***************************************************************************)
BatchLength == 1        \* sequences of one micro batch
VocabSize == 2          \* tokens of the vocabulary, the last one is EOS
GreedyStages == 3       \* pipeline stages of a generate call with fixed logits
GreedyMicroBatches == 2 \* micro batches of such a call: 1 .. GreedyMicroBatches
GreedyNewTokens == 1    \* the caller's max_new_tokens of such a call, at most
GreedyLogits == 4       \* different rows of logits the model computes in such a call, at most

Sequences == 1 .. BatchLength

Local(s) ==
    [tensor_buffer |-> tensor_buffer[s],
     terminate |-> terminate[s],
     kv_cache_reserved |-> kv_cache_reserved[s],
     generated_idx |-> generated_idx[s],
     first_token |-> first_token[s],
     unfinished_sequences |-> unfinished_sequences[s],
     cache_seqlens |-> cache_seqlens[s],
     kv_cache |-> kv_cache[s],
     gen_token_ph |-> gen_token_ph[s],
     gen_tokens |-> gen_tokens[s],
     losses |-> losses[s],
     stats |-> stats[s],
     avg_ret |-> avg_ret[s],
     activation_grad |-> activation_grad[s],
     written |-> written[s],
     is_first_step |-> FALSE,
     raised |-> FALSE]

\* TensorBuffer.put / alloc
Put(st, tag, mb) ==
    [st EXCEPT !.tensor_buffer = @ \cup {<<tag, mb>>}, !.written = @ \cup {tag}]

\* TensorBuffer.get(..., remove=True) of an entry that is present, or with raise_error=False
Pop(st, tag, mb) == [st EXCEPT !.tensor_buffer = @ \ {<<tag, mb>>}]

\* TensorBuffer.remove(tag)
RemoveTag(st, tag) == [st EXCEPT !.tensor_buffer = {e \in @ : e[1] # tag}]

Has(st, tag, mb) == <<tag, mb>> \in st.tensor_buffer

\* TensorBuffer.get with raise_error=True of an entry that is missing
Raise(st) == [st EXCEPT !.raised = TRUE]

RECURSIVE PutAll(_, _, _)
PutAll(st, tags, mb) ==
    IF tags = <<>> THEN st ELSE PutAll(Put(st, Head(tags), mb), Tail(tags), mb)

RECURSIVE RemoveTags(_, _)
RemoveTags(st, tags) ==
    IF tags = <<>> THEN st ELSE RemoveTags(RemoveTag(st, Head(tags)), Tail(tags))

\* the element of a one-element set; Only({e(v) : v \in {x}}) is e(x) with x
\* evaluated once
Only(S) == CHOOSE x \in S : TRUE

RECURSIVE ForEachMb(_, _, _)
\* for mbid in range(n): st = Op(st, mbid), stopping at the first exception
ForEachMb(Op(_, _), st, mbs) ==
    Only({IF mbs = <<>> \/ v.raised THEN v
          ELSE ForEachMb(Op, Op(v, Head(mbs)), Tail(mbs)) : v \in {st}})

MbRange == [i \in 1 .. num_micro_batches |-> i - 1]

(***************************************************************************)
(* Engine modes: _set_forward_states, _set_eval_batch_states,              *)
(* _set_train_batch_states, _set_generate_states                           *)
(***************************************************************************)
Mode(generate_mode, train_mode, inference_mode, compute_loss) ==
    [generate_mode |-> generate_mode, train_mode |-> train_mode,
     inference_mode |-> inference_mode, compute_loss |-> compute_loss]

ConstructedMode == Mode(FALSE, FALSE, TRUE, FALSE)

set_forward_states == Mode(FALSE, FALSE, TRUE, FALSE)

set_eval_batch_states == Mode(FALSE, FALSE, TRUE, TRUE)

set_train_batch_states == Mode(FALSE, TRUE, FALSE, TRUE)

\* _set_generate_states without the reset of the inference flag
set_generate_states_KeepInference == Mode(TRUE, FALSE, TRUE, FALSE)

set_generate_states == Mode(TRUE, FALSE, FALSE, FALSE)

set_states(c) ==
    CASE c = "forward" -> set_forward_states
      [] c = "eval_batch" -> set_eval_batch_states
      [] c = "train_batch" -> set_train_batch_states
      [] OTHER -> set_generate_states

(***************************************************************************)
(* _prepare_input, _prepare_loss_input, _pre_generate                      *)
(***************************************************************************)
prepare_input_mb(m, st, mb) ==
    LET st1 == IF m.compute_loss THEN Put(st, "input_cache", mb) ELSE st
        st2 == IF ~sequence_parallel THEN st1
               ELSE IF ~m.generate_mode THEN Put(st1, "pad_size", mb)
               ELSE PutAll(st1, <<"pad_size", "pad_seq_size">>, mb)
    IN  PutAll(st2, <<"batch_input_x", "batch_input_ys", "batch_lengths", "mb_seq_lens",
                      "pipe_transfer_infos">>, mb)

prepare_input(m, st) ==
    LET Op(t, mb) == prepare_input_mb(m, t, mb) IN ForEachMb(Op, st, MbRange)

prepare_loss_input(st) ==
    LET Op(t, mb) == Put(t, "loss_inputs", mb) IN ForEachMb(Op, st, MbRange)

pre_generate_mb(st, mb) ==
    IF ~Has(st, "batch_lengths", mb) THEN Raise(PutAll(st, <<"kv_cache_reserved", "terminate",
                                                              "generated_idx">>, mb))
    ELSE LET st1 == PutAll(st, <<"kv_cache_reserved", "terminate", "generated_idx",
                                 "unfinished_sequences", "gen_token_ph", "gen_logprob_ph",
                                 "gen_logits_mask_ph", "first_token">>, mb)
         IN  [st1 EXCEPT !.kv_cache_reserved[mb] = FALSE,
                         !.terminate[mb] = FALSE,
                         !.generated_idx[mb] = 0,
                         !.unfinished_sequences[mb] = [q \in Sequences |-> 1],
                         !.gen_token_ph[mb] = <<>>,
                         !.first_token[mb] = TRUE]

pre_generate(st) == ForEachMb(pre_generate_mb, st, MbRange)

\* forward / eval_batch / train_batch / generate, up to the call of _exec_schedule
pre_call(c, st) ==
    LET m == set_states(c)
        st1 == prepare_input(m, st)
    IN  CASE c = "forward" -> st1
          [] c = "generate" -> pre_generate(st1)
          [] OTHER -> prepare_loss_input(st1)

\* gconfig.max_new_tokens += self.num_stages - 1
generate_gconfig(g) == [g EXCEPT !.max_new_tokens = @ + (num_stages - 1)]

\* the InferenceSchedule whatever the call
Sched_Inference(s) == InferenceSchedule(num_micro_batches, num_stages, s)

\* The schedule a stage executes in the current call
Sched(s) ==
    CASE call = "train_batch" -> TrainSchedule(num_micro_batches, num_stages, s)
      [] call = "generate" -> GenerateSchedule(num_micro_batches, num_stages, s,
                                               gconfig[s].max_new_tokens)
      [] OTHER -> InferenceSchedule(num_micro_batches, num_stages, s)

\* burn_out_steps without the case of the stage before the last one
initial_burn_out_steps_TwoCases(s) == IF is_last_stage(s) THEN num_stages - 1 ELSE 1

\* burn_out_steps at the start of _exec_schedule
initial_burn_out_steps(s) ==
    IF is_last_stage(s) THEN num_stages - 1
    ELSE IF s = num_stages - 2 THEN 0
    ELSE 1

\* Write the handlers' results back: f maps the stages that ran a handler to its result
SetLocals(f) ==
    LET New(old, field(_)) == [s \in Stages |-> IF s \in DOMAIN f THEN field(f[s]) ELSE old[s]]
    IN  /\ tensor_buffer' = New(tensor_buffer, LAMBDA st : st.tensor_buffer)
        /\ terminate' = New(terminate, LAMBDA st : st.terminate)
        /\ kv_cache_reserved' = New(kv_cache_reserved, LAMBDA st : st.kv_cache_reserved)
        /\ generated_idx' = New(generated_idx, LAMBDA st : st.generated_idx)
        /\ first_token' = New(first_token, LAMBDA st : st.first_token)
        /\ unfinished_sequences' = New(unfinished_sequences, LAMBDA st : st.unfinished_sequences)
        /\ cache_seqlens' = New(cache_seqlens, LAMBDA st : st.cache_seqlens)
        /\ kv_cache' = New(kv_cache, LAMBDA st : st.kv_cache)
        /\ gen_token_ph' = New(gen_token_ph, LAMBDA st : st.gen_token_ph)
        /\ gen_tokens' = New(gen_tokens, LAMBDA st : st.gen_tokens)
        /\ losses' = New(losses, LAMBDA st : st.losses)
        /\ stats' = New(stats, LAMBDA st : st.stats)
        /\ avg_ret' = New(avg_ret, LAMBDA st : st.avg_ret)
        /\ activation_grad' = New(activation_grad, LAMBDA st : st.activation_grad)
        /\ written' = New(written, LAMBDA st : st.written)

SetLocal(s, st) == SetLocals(s :> st)

lvars == <<tensor_buffer, terminate, kv_cache_reserved, generated_idx, first_token,
           unfinished_sequences, cache_seqlens, kv_cache, gen_token_ph, gen_tokens, losses,
           stats,
           avg_ret, activation_grad, written>>

wallvars == <<mvars, svars, wvars>>

\* A stage enters forward / eval_batch / train_batch / generate
EngineCall(s) ==
    /\ s \in Stages
    /\ epc[s] = "idle"
    /\ \E st \in {pre_call(call, Local(s))} :
           LET g == IF call = "generate" THEN generate_gconfig(gconfig[s]) ELSE gconfig[s]
           IN
           /\ mode' = [mode EXCEPT ![s] = set_states(call)]
           /\ gconfig' = [gconfig EXCEPT ![s] = g]
           /\ SetLocal(s, st)
           /\ epc' = [epc EXCEPT ![s] = IF st.raised THEN "error" ELSE "exec"]
    /\ step_idx' = [step_idx EXCEPT ![s] = 1]
    /\ cmd_idx' = [cmd_idx EXCEPT ![s] = 1]
    /\ will_break' = [will_break EXCEPT ![s] = FALSE]
    /\ burn_out_steps' = [burn_out_steps EXCEPT ![s] = initial_burn_out_steps(s)]
    /\ UNCHANGED <<cvars, comm_part, step_count, exec_log, term_step, wallvars>>

(***************************************************************************)
(* Instruction handlers: the computation instructions                      *)
(***************************************************************************)
\* st, unless an earlier statement has raised: then the exception propagates
Then(st, Op(_)) == Only({IF v.raised THEN v ELSE Op(v) : v \in {st}})

\* tensor_buffer.get(tag, mb, remove=False): raises when the entry is missing
Get(st, tag, mb) == IF Has(st, tag, mb) THEN st ELSE Raise(st)

\* tensor_buffer.get(tag, mb, remove=True): raises when the entry is missing
GetRemove(st, tag, mb) == IF Has(st, tag, mb) THEN Pop(st, tag, mb) ELSE Raise(st)

(***************************************************************************)
(* genstep (impl/model/nn/flash_mqat.py) with greedy = True.  Tokens are   *)
(* 0 .. VocabSize - 1, a row of logits gives every token a low or a high   *)
(* value, and NegInf, below both, stands for the value of a masked logit.  *)
(***************************************************************************)
Vocab == 0 .. (VocabSize - 1)
eos_token_id == VocabSize - 1       \* tokenizer.eos_token_id
pad_token_id == 0                   \* tokenizer.pad_token_id
NegInf == 0
LogitValues == 1 .. 2               \* a low and a high logit
LogitRows(rows) == [rows -> [Vocab -> LogitValues]]

\* mask_eos_token: the EOS logit of every row becomes -inf
mask_eos_token(logits, eos) == [q \in DOMAIN logits |-> [logits[q] EXCEPT ![eos] = NegInf]]

\* generated_idx < gconfig.min_new_tokens, without the test
eos_masked_Never(gen_idx, g) == FALSE
eos_masked(gen_idx, g) == gen_idx < g.min_new_tokens

\* an index of the largest logit, whichever
greedy_mode_AnyMax(row) == {tok \in Vocab : \A u \in Vocab : row[u] <= row[tok]}

\* distrb.mode of one row, probs.argmax(axis=-1): the first index of the largest logit
greedy_mode(row) ==
    {tok \in Vocab : /\ \A u \in Vocab : row[u] <= row[tok]
                     /\ \A u \in Vocab : u < tok => row[u] < row[tok]}

\* the values of "next_tokens = distrb.mode" for the given logits
genstep_next_tokens(next_token_logits, gen_idx, g) ==
    LET logits == IF eos_masked(gen_idx, g)
                  THEN mask_eos_token(next_token_logits, eos_token_id)
                  ELSE next_token_logits
    IN  {nt \in [DOMAIN logits -> Vocab] : \A q \in DOMAIN logits : nt[q] \in greedy_mode(logits[q])}

\* genstep with terminate taken from the unfinished flags before the step
genstep_TerminateBefore(sampled, unfinished, gen_idx, g) ==
    LET next_tokens == [q \in DOMAIN unfinished |->
                           sampled[q] * unfinished[q] + pad_token_id * (1 - unfinished[q])]
        unf == [q \in DOMAIN unfinished |->
                   (IF next_tokens[q] # eos_token_id THEN 1 ELSE 0) * unfinished[q]]
    IN  [next_tokens |-> next_tokens,
         unfinished_sequences |-> unf,
         terminate |-> (gen_idx >= g.max_new_tokens - 1)
                       \/ (\A q \in DOMAIN unfinished : unfinished[q] = 0)]

\* genstep whose new flags forget the old ones
genstep_ForgetsFinished(sampled, unfinished, gen_idx, g) ==
    LET next_tokens == [q \in DOMAIN unfinished |->
                           sampled[q] * unfinished[q] + pad_token_id * (1 - unfinished[q])]
        unf == [q \in DOMAIN unfinished |-> IF next_tokens[q] # eos_token_id THEN 1 ELSE 0]
    IN  [next_tokens |-> next_tokens,
         unfinished_sequences |-> unf,
         terminate |-> (gen_idx >= g.max_new_tokens - 1)
                       \/ (\A q \in DOMAIN unfinished : unf[q] = 0)]

\* genstep from "if tokenizer.eos_token_id is not None" on; sampled: distrb.mode
genstep(sampled, unfinished, gen_idx, g) ==
    LET next_tokens == [q \in DOMAIN unfinished |->
                           sampled[q] * unfinished[q] + pad_token_id * (1 - unfinished[q])]
        unf == [q \in DOMAIN unfinished |->
                   (IF next_tokens[q] # eos_token_id THEN 1 ELSE 0) * unfinished[q]]
    IN  [next_tokens |-> next_tokens,
         unfinished_sequences |-> unf,
         terminate |-> (gen_idx >= g.max_new_tokens - 1)
                       \/ (\A q \in DOMAIN unf : unf[q] = 0)]

\* the values distrb.mode can take in the ForwardPass of micro batch mb on the
\* last stage, over all logits the model may produce
SampledTokens(s, mb) ==
    UNION {genstep_next_tokens(l, generated_idx[s][mb], gconfig[s]) :
              l \in IF model_logits = <<>> THEN LogitRows(Sequences)
                    ELSE {model_logits[mb][generated_idx[s][mb]]}}

\* The transformer layers of a stage (the embedding of the first stage and the head of
\* the last one hold no cache): range(layer_idx_start, layer_idx_stop) less these two
LayersPerStage == 1
layer_indices(s) == (s * LayersPerStage + 1) .. ((s + 1) * LayersPerStage)

\* f"kv_cache_{layer_idx}_k", f"kv_cache_{layer_idx}_v"
kv_cache_name(layer_idx, kv) == <<"kv_cache", layer_idx, kv>>

\* GlobalMemoryBuffer.get_tensor(shape, dtype, name, force_zero=True) in the process of
\* stage s: the region of the arena that is registered under the name
get_tensor(s, name) == <<s, name>>

\* __maybe_init_kv_cache
maybe_init_kv_cache(s, st, mb) ==
    IF ~mode[s].generate_mode THEN [st EXCEPT !.is_first_step = FALSE]
    ELSE IF ~Has(st, "kv_cache_reserved", mb) THEN Raise(st)
    ELSE IF st.kv_cache_reserved[mb] THEN [st EXCEPT !.is_first_step = FALSE]
    ELSE LET st1 == Put(st, "prompt_logits", mb)
         IN  IF ~Has(st1, "pipe_transfer_infos", mb) THEN Raise(st1)
             ELSE [Put(st1, "kv_cache_reserved", mb) EXCEPT
                      !.cache_seqlens[mb] = 0,
                      !.kv_cache[mb] =
                          {get_tensor(s, kv_cache_name(layer_idx, kv)) :
                               layer_idx \in layer_indices(s), kv \in {"k", "v"}},
                      !.kv_cache_reserved[mb] = TRUE,
                      !.is_first_step = TRUE]

\* __maybe_increase_cache_seqlens without its test of is_first_step
maybe_increase_cache_seqlens_Always(s, st, mb) ==
    IF ~mode[s].generate_mode THEN st
    ELSE IF st.cache_seqlens[mb] < 0 THEN Raise(st)
    ELSE [st EXCEPT !.cache_seqlens[mb] = @ + 1]

\* __maybe_increase_cache_seqlens
maybe_increase_cache_seqlens(s, st, mb) ==
    IF ~mode[s].generate_mode \/ st.is_first_step THEN st
    ELSE IF st.cache_seqlens[mb] < 0 THEN Raise(st)        \* None += 1
    ELSE [st EXCEPT !.cache_seqlens[mb] = @ + 1]

\* __maybe_genstep
maybe_genstep(s, st, mb, sampled) ==
    IF ~(mode[s].generate_mode /\ is_last_stage(s)) THEN st
    ELSE IF ~Has(st, "unfinished_sequences", mb) \/ ~Has(st, "generated_idx", mb) THEN Raise(st)
    ELSE LET r == genstep(sampled, st.unfinished_sequences[mb], st.generated_idx[mb],
                          gconfig[s])
             st1 == [PutAll(st, <<"terminate", "unfinished_sequences", "generated_idx">>, mb)
                        EXCEPT !.terminate[mb] = r.terminate,
                               !.unfinished_sequences[mb] = r.unfinished_sequences,
                               !.generated_idx[mb] = @ + 1]
             st2 == [st1 EXCEPT !.gen_token_ph[mb] = Append(@, r.next_tokens)]
         IN  IF ~Has(st1, "gen_token_ph", mb) \/ ~Has(st1, "gen_logprob_ph", mb)
                  \/ ~Has(st1, "gen_logits_mask_ph", mb)
             THEN Raise(st1)
             ELSE Put(st2, "next_tokens_to_send", mb)

NoLoss == <<>>          \* None where a loss or a stats value is expected
NotReturned == <<>>     \* eval_batch or train_batch has not returned
UnitLosses == <<>>      \* loss_fn_values of a loss function that returns 1 everywhere

\* Numbers of the losses: the fraction num / den as <<num, den>>, den > 0. The rounding
\* of the floating-point division is not modelled.
Rat(num, den) == <<num, den>>
RatDiv(r, k) == <<r[1], r[2] * k>>
RatAdd(r, u) == <<r[1] * u[2] + u[1] * r[2], r[2] * u[2]>>
RatEq(r, u) == r[1] * u[2] = u[1] * r[2]

RECURSIVE RatSum(_, _)
RatSum(values, k) ==
    IF k = 0 THEN Rat(0, 1) ELSE RatAdd(RatSum(values, k - 1), values[k - 1])

\* torch.stack(values).mean() over the micro batches
StackMean(values) == RatDiv(RatSum(values, num_micro_batches), num_micro_batches)

\* what self._loss_fn returns as loss for a micro batch; its stats hold the same value
\* (compute_packed_sft_loss: {"loss": loss.detach()})
loss_fn(mb) == Rat(IF loss_fn_values = UnitLosses THEN 1 ELSE loss_fn_values[mb], 1)

\* __maybe_calculate_loss
maybe_calculate_loss(s, st, mb) ==
    IF ~(is_last_stage(s) /\ mode[s].compute_loss) THEN st
    ELSE LET st1 == IF sequence_parallel THEN GetRemove(st, "pad_size", mb) ELSE st
             GetLossInputs(t) == GetRemove(t, "loss_inputs", mb)
             GetInputCache(t) == GetRemove(t, "input_cache", mb)
             \* loss, stats = self._loss_fn(...)
             LossFn(t) == IF mb \in loss_fn_raises THEN Raise(t) ELSE t
             \* loss = loss / self.num_micro_batches; put("losses"), put("stats")
             PutLoss(t) == PutAll([t EXCEPT
                                      !.losses[mb] = RatDiv(loss_fn(mb), num_micro_batches),
                                      !.stats[mb] = loss_fn(mb)],
                                  <<"losses", "stats">>, mb)
         IN  Then(Then(Then(Then(st1, GetLossInputs), GetInputCache), LossFn), PutLoss)

\* __maybe_store_logits
maybe_store_logits(s, st, mb) ==
    IF is_last_stage(s) /\ ~mode[s].compute_loss THEN Put(st, "logits", mb) ELSE st

\* _exec_forward_pass
exec_forward_pass(s, st, mb, sampled) ==
    LET gen_first == mode[s].generate_mode /\ is_first_stage(s)
        buf_tag == IF gen_first THEN "recv_next_tokens_buf" ELSE "recv_act_buf"
        has_buf == Has(st, buf_tag, mb)
        st1 == Get(Pop(st, buf_tag, mb), "batch_input_ys", mb)
        Input(t) == IF has_buf /\ ~gen_first
                    THEN Then(Get(t, "pipe_transfer_infos", mb),
                              LAMBDA u : Put(u, "batch_input_x", mb))
                    ELSE GetRemove(t, "batch_input_x", mb)
        InitKv(t) == maybe_init_kv_cache(s, t, mb)
        IncSeqlens(t) == maybe_increase_cache_seqlens(s, t, mb)
        GenStep(t) == maybe_genstep(s, t, mb, sampled)
        Loss(t) == maybe_calculate_loss(s, t, mb)
        Logits(t) == maybe_store_logits(s, t, mb)
        Output(t) == Put(t, "batch_output_x", mb)
    IN  Then(Then(Then(Then(Then(Then(Then(st1, Input), InitKv), IncSeqlens), GenStep),
                  Loss), Logits), Output)

\* _exec_backward_pass that leaves the gradient of the received activation out
exec_backward_pass_NoGrad(s, st, mb) ==
    LET st1 == GetRemove(st, "batch_output_x", mb)
        LastStage(t) == Then(GetRemove(t, "losses", mb), LAMBDA u : Put(u, "losses", mb))
        OtherStage(t) == GetRemove(Pop(t, "recv_grad_handle", mb), "grad", mb)
    IN  IF is_last_stage(s) THEN Then(st1, LastStage) ELSE Then(st1, OtherStage)

\* _exec_backward_pass
exec_backward_pass(s, st, mb) ==
    LET st1 == GetRemove(st, "batch_output_x", mb)
        Grad(t) == IF Has(t, "activation", mb)
                   THEN [t EXCEPT !.activation_grad = @ \cup {mb}] ELSE t
        LastStage(t) == Then(GetRemove(t, "losses", mb), LAMBDA u : Grad(Put(u, "losses", mb)))
        OtherStage(t) == Then(GetRemove(Pop(t, "recv_grad_handle", mb), "grad", mb), Grad)
    IN  IF is_last_stage(s) THEN Then(st1, LastStage) ELSE Then(st1, OtherStage)

\* _exec_reduce_grads, _exec_optimizer_step: assert self._train_mode
exec_reduce_grads(s, st) == IF mode[s].train_mode THEN st ELSE Raise(st)

exec_optimizer_step(s, st) == IF mode[s].train_mode THEN st ELSE Raise(st)

(***************************************************************************)
(* Instruction handlers: the communication instructions.  A blocking       *)
(* p2p.send completes together with the matching p2p.recv of the peer; in  *)
(* generate mode every tensor is followed by the terminate flag of the     *)
(* micro batch.                                                            *)
(***************************************************************************)
SendTypes == {"SendActivation", "SendGrad", "SendNextTokens"}
RecvTypes == {"RecvActivation", "RecvGrad", "RecvNextTokens"}

\* the statements of a send handler up to the p2p.send of the tensor
send_pre(s, st, cmd) ==
    LET mb == cmd.micro_batch_id IN
    CASE cmd.type = "SendActivation" ->
            IF is_last_stage(s) THEN Raise(st)
            ELSE IF mode[s].train_mode THEN Get(st, "batch_output_x", mb)
            ELSE GetRemove(st, "batch_output_x", mb)
      [] cmd.type = "SendGrad" ->
            IF ~mode[s].train_mode \/ is_first_stage(s) THEN Raise(st)
            ELSE Then(GetRemove(st, "activation", mb),
                      LAMBDA t : IF mb \in t.activation_grad
                                 THEN [t EXCEPT !.activation_grad = @ \ {mb}]
                                 ELSE Raise(t))
      [] OTHER ->   \* SendNextTokens
            IF ~(mode[s].generate_mode /\ is_last_stage(s)) THEN Raise(st)
            ELSE GetRemove(st, "next_tokens_to_send", mb)

\* the statements of a receive handler around the p2p.recv of the tensor
recv_pre(s, st, cmd) ==
    LET mb == cmd.micro_batch_id
        Buffer(t) == IF mode[s].train_mode
                     THEN [Put(t, "activation", mb) EXCEPT !.activation_grad = @ \ {mb}]
                     ELSE IF mode[s].inference_mode THEN t
                     ELSE Then(Get(t, "first_token", mb),
                               LAMBDA u : IF u.first_token[mb]
                                          THEN [Put(u, "first_token", mb)
                                                   EXCEPT !.first_token[mb] = FALSE]
                                          ELSE Get(u, "batch_lengths", mb))
    IN
    CASE cmd.type = "RecvActivation" ->
            IF is_first_stage(s) THEN Raise(st)
            ELSE Then(Then(Get(st, "mb_seq_lens", mb), Buffer),
                      LAMBDA t : Put(t, "recv_act_buf", mb))
      [] cmd.type = "RecvGrad" ->
            IF ~mode[s].train_mode \/ is_last_stage(s) THEN Raise(st)
            ELSE Then(Get(st, "mb_seq_lens", mb), LAMBDA t : Put(t, "grad", mb))
      [] OTHER ->   \* RecvNextTokens
            IF ~(mode[s].generate_mode /\ is_first_stage(s)) THEN Raise(st)
            ELSE Then(Get(st, "batch_lengths", mb),
                      LAMBDA t : PutAll(t, <<"recv_next_tokens_buf", "batch_input_x">>, mb))

\* the stage a send goes to, the stage a receive waits for
send_peer(s, cmd) == IF cmd.type = "SendGrad" THEN prev_stage(s) ELSE next_stage(s)

recv_peer(s, cmd) == IF cmd.type = "RecvGrad" THEN next_stage(s) ELSE prev_stage(s)

\* whether the handler also transfers the terminate flag
with_terminate(s, cmd) ==
    cmd.type \in {"SendNextTokens", "RecvNextTokens"}
    \/ (cmd.type \in {"SendActivation", "RecvActivation"} /\ mode[s].generate_mode)

\* p2p.send(self.tensor_buffer.get("terminate", micro_batch_id), ...)
send_terminate(st, mb) == Get(st, "terminate", mb)

\* the received flag is dropped and the buffer's flag cleared
recv_terminate_Cleared(st, mb, value) == [Put(st, "terminate", mb) EXCEPT !.terminate[mb] = FALSE]

\* p2p.recv(terminate, ...); self.tensor_buffer.put("terminate", micro_batch_id, terminate)
recv_terminate(st, mb, value) == [Put(st, "terminate", mb) EXCEPT !.terminate[mb] = value]

(***************************************************************************)
(* _exec_schedule                                                          *)
(***************************************************************************)
\* the keys of _INSTRUCTION_MAP
InstructionMap ==
    {"OptimizerStep", "ReduceGrads", "ForwardPass", "BackwardPass", "SendActivation",
     "RecvActivation", "SendGrad", "RecvGrad", "SendNextTokens", "RecvNextTokens",
     "EndSchedule"}

\* type(cmd) not in self._INSTRUCTION_MAP, without the test
InInstructionMap_Any(cmd) == TRUE
InInstructionMap(cmd) == cmd.type \in InstructionMap

\* step i of the pipe_schedule that _exec_schedule iterates over
PipeStep(s, i) ==
    LET step == Sched(s)[i]
    IN  IF i = unknown_cmd_step
        THEN [step EXCEPT !.cmds = <<Cmd("LoadMicroBatch", step.micro_batch_id, step.step_id)>>
                                   \o @]
        ELSE step

CurStep(s) == PipeStep(s, step_idx[s])

InStep(s) == s \in Stages /\ epc[s] = "exec" /\ cmd_idx[s] <= Len(CurStep(s).cmds)

CurCmd(s) == CurStep(s).cmds[cmd_idx[s]]

\* the first branch without its test of burn_out_steps
SkipOnLastStage_EveryStep(s, cmd) == is_last_stage(s) /\ cmd.type # "RecvActivation"

\* the two `continue` branches of the burn-out
SkipOnLastStage(s, cmd) ==
    is_last_stage(s) /\ burn_out_steps[s] < num_stages - 1 /\ cmd.type # "RecvActivation"

\* the second branch without its test of the instruction type
SkipOnOtherStage_All(s, cmd) == ~is_last_stage(s)

SkipOnOtherStage(s, cmd) == ~is_last_stage(s) /\ cmd.type # "SendActivation"

Skipped(s, cmd) == will_break[s] /\ (SkipOnLastStage(s, cmd) \/ SkipOnOtherStage(s, cmd))

LogEntry(s, cmd, st, peer_type, peer_mb) ==
    [type |-> cmd.type, micro_batch_id |-> cmd.micro_batch_id, step_id |-> cmd.step_id,
     burn |-> will_break[s],
     first_step |-> st.is_first_step,
     reserved_before |-> IF valid_micro_batch(cmd.micro_batch_id, num_micro_batches)
                         THEN kv_cache_reserved[s][cmd.micro_batch_id] ELSE FALSE,
     seqlens_before |-> IF valid_micro_batch(cmd.micro_batch_id, num_micro_batches)
                        THEN cache_seqlens[s][cmd.micro_batch_id] ELSE -1,
     seqlens_after |-> IF valid_micro_batch(cmd.micro_batch_id, num_micro_batches)
                       THEN st.cache_seqlens[cmd.micro_batch_id] ELSE -1,
     peer_type |-> peer_type, peer_mb |-> peer_mb]

\* the handler of a computation instruction
exec_instr(s, st, cmd, sampled) ==
    CASE cmd.type = "ForwardPass" -> exec_forward_pass(s, st, cmd.micro_batch_id, sampled)
      [] cmd.type = "BackwardPass" -> exec_backward_pass(s, st, cmd.micro_batch_id)
      [] cmd.type = "ReduceGrads" -> exec_reduce_grads(s, st)
      [] cmd.type = "OptimizerStep" -> exec_optimizer_step(s, st)
      [] cmd.type \in SendTypes -> send_pre(s, st, cmd)
      [] OTHER -> recv_pre(s, st, cmd)

Bump(f, s) == [f EXCEPT ![s] = @ + 1]

\* `continue`: the instruction is skipped during burn-out
ExecSkip(s) ==
    /\ InStep(s)
    /\ InInstructionMap(CurCmd(s))
    /\ Skipped(s, CurCmd(s))
    /\ cmd_idx' = Bump(cmd_idx, s)
    /\ UNCHANGED <<cvars, gconfig, epc, mode, step_idx, comm_part, will_break, burn_out_steps,
                   step_count, lvars, exec_log, term_step, wallvars>>

\* whether the communication instruction raises before it reaches its p2p call
CommRaises(s, cmd) ==
    IF comm_part[s] = 0 THEN exec_instr(s, Local(s), cmd, <<>>).raised
    ELSE cmd.type \in SendTypes /\ send_terminate(Local(s), cmd.micro_batch_id).raised

\* self._exec_instr(*cmd.args) of a computation instruction, or of a communication
\* instruction that raises; an exception is logged and raised again
ExecLocal(s) ==
    /\ InStep(s)
    /\ InInstructionMap(CurCmd(s))
    /\ ~Skipped(s, CurCmd(s))
    /\ \E cmd \in {CurCmd(s)} :
           LET tokens == IF cmd.type = "ForwardPass" /\ mode[s].generate_mode
                            /\ is_last_stage(s)
                         THEN SampledTokens(s, cmd.micro_batch_id) ELSE {<<>>}
           IN
           /\ cmd.type \in SendTypes \cup RecvTypes => CommRaises(s, cmd)
           /\ \E sampled \in tokens :
                 \E st \in {IF comm_part[s] = 0 THEN exec_instr(s, Local(s), cmd, sampled)
                            ELSE send_terminate(Local(s), cmd.micro_batch_id)} :
                     /\ SetLocal(s, st)
                     /\ IF st.raised
                        THEN /\ epc' = [epc EXCEPT ![s] = "error"]
                             /\ UNCHANGED <<cmd_idx, exec_log>>
                        ELSE /\ cmd_idx' = Bump(cmd_idx, s)
                             /\ exec_log' = [exec_log EXCEPT
                                                ![s] = Append(@, LogEntry(s, cmd, st, "", -1))]
                             /\ UNCHANGED epc
    /\ UNCHANGED <<cvars, gconfig, mode, step_idx, comm_part, will_break, burn_out_steps,
                   step_count, term_step, wallvars>>

\* raise RuntimeError(... does not understand instruction ...)
ExecUnknown(s) ==
    /\ InStep(s)
    /\ ~InInstructionMap(CurCmd(s))
    /\ epc' = [epc EXCEPT ![s] = "error"]
    /\ UNCHANGED <<cvars, gconfig, mode, step_idx, cmd_idx, comm_part, will_break,
                   burn_out_steps, step_count, lvars, exec_log, term_step, wallvars>>

\* a blocking p2p.send of stage a meets the p2p.recv of its peer
P2PTransfer(a) ==
    /\ InStep(a)
    /\ CurCmd(a).type \in SendTypes
    /\ ~Skipped(a, CurCmd(a))
    /\ \E ca \in {CurCmd(a)} :
           LET b == send_peer(a, ca) IN
           /\ InStep(b)
           /\ CurCmd(b).type \in RecvTypes
           /\ ~Skipped(b, CurCmd(b))
           /\ recv_peer(b, CurCmd(b)) = a
           /\ comm_part[a] = comm_part[b]
           /\ ~CommRaises(a, ca)
           /\ ~CommRaises(b, CurCmd(b))
           /\ \E cb \in {CurCmd(b)} :
              \E sa \in {IF comm_part[a] = 0 THEN send_pre(a, Local(a), ca) ELSE Local(a)} :
              \E sb \in {IF comm_part[b] = 0 THEN recv_pre(b, Local(b), cb)
                         ELSE recv_terminate(Local(b), cb.micro_batch_id,
                                             terminate[a][ca.micro_batch_id])} :
              LET more == comm_part[a] = 0 /\ with_terminate(a, ca)
              IN  /\ SetLocals((a :> sa) @@ (b :> sb))
                  /\ IF more
                     THEN /\ comm_part' = [comm_part EXCEPT ![a] = 1, ![b] = 1]
                          /\ UNCHANGED <<cmd_idx, exec_log>>
                     ELSE /\ comm_part' = [comm_part EXCEPT ![a] = 0, ![b] = 0]
                          /\ cmd_idx' = [cmd_idx EXCEPT ![a] = @ + 1, ![b] = @ + 1]
                          /\ exec_log' = [exec_log EXCEPT
                                ![a] = Append(@, LogEntry(a, ca, sa, cb.type, cb.micro_batch_id)),
                                ![b] = Append(@, LogEntry(b, cb, sb, ca.type, ca.micro_batch_id))]
    /\ UNCHANGED <<cvars, gconfig, epc, mode, step_idx, will_break, burn_out_steps,
                   step_count, term_step, wallvars>>

\* terminate_condition of generate
terminate_condition(s) == \A mb \in MicroBatches : terminate[s][mb]

\* the end of the body of `for step_cmds in pipe_schedule`
EndStep(s) ==
    /\ s \in Stages
    /\ epc[s] = "exec"
    /\ cmd_idx[s] > Len(CurStep(s).cmds)
    /\ LET burn == IF will_break[s] THEN burn_out_steps[s] - 1 ELSE burn_out_steps[s]
           brk == will_break[s] \/ (call = "generate" /\ terminate_condition(s))
           leave == (brk /\ burn <= 0) \/ step_idx[s] = Len(Sched(s))
       IN  /\ step_count' = Bump(step_count, s)
           /\ burn_out_steps' = [burn_out_steps EXCEPT ![s] = burn]
           /\ will_break' = [will_break EXCEPT ![s] = brk]
           /\ term_step' = [term_step EXCEPT
                               ![s] = IF brk /\ ~will_break[s] THEN step_count[s] + 1 ELSE @]
           /\ IF leave
              THEN /\ epc' = [epc EXCEPT ![s] = "post"]
                   /\ UNCHANGED <<step_idx, cmd_idx>>
              ELSE /\ step_idx' = Bump(step_idx, s)
                   /\ cmd_idx' = [cmd_idx EXCEPT ![s] = 1]
                   /\ UNCHANGED epc
    /\ UNCHANGED <<cvars, gconfig, mode, comm_part, lvars, exec_log, wallvars>>

(***************************************************************************)
(* After _exec_schedule: gathering the results, and the _post_* phases     *)
(***************************************************************************)
P2PCacheTags ==
    <<"recv_next_tokens_buf", "recv_act_buf", "recv_next_tokens_handle", "recv_act_handle",
      "recv_grad_handle", "send_act_handle", "send_next_tokens_handle", "send_grad_handle">>

clear_p2p_caches(st) == RemoveTags(st, P2PCacheTags)

post_eval_batch(st) ==
    clear_p2p_caches(RemoveTags(st, <<"batch_input_x", "batch_input_ys", "batch_lengths",
                                      "loss_inputs", "input_cache", "losses", "stats">>))

post_forward(st) == clear_p2p_caches(RemoveTag(post_eval_batch(st), "logits"))

post_train_batch(st) == post_eval_batch(st)

post_generate(st) ==
    clear_p2p_caches(RemoveTags(st, <<"next_tokens_cache", "next_tokens_to_send",
        "generated_idx", "terminate", "unfinished_sequences", "gen_token_ph", "gen_logprob_ph",
        "gen_logits_mask_ph", "batch_lengths", "prompt_logits", "kv_cache_reserved",
        "batch_input_x", "batch_input_ys", "input_cache", "first_token">>))

\* forward: the logits of the last stage
gather_logits_mb(st, mb) ==
    Then(GetRemove(st, "logits", mb),
         LAMBDA t : IF sequence_parallel THEN GetRemove(t, "pad_size", mb) ELSE t)

\* eval_batch, train_batch: losses and stats of the last stage
gather_losses_mb(st, mb) == Then(Get(st, "losses", mb), LAMBDA t : Get(t, "stats", mb))

\* _maybe_gather_generate_outputs
gather_generate_mb(st, mb) ==
    LET Stack(t) == IF t.generated_idx[mb] = 0 THEN Raise(t) ELSE t    \* torch.stack([])
        PadSeq(t) == IF sequence_parallel THEN GetRemove(t, "pad_seq_size", mb) ELSE t
    IN  Then(Then(Then(Then(GetRemove(st, "gen_token_ph", mb),
                            LAMBDA t : GetRemove(t, "gen_logprob_ph", mb)),
                       LAMBDA t : GetRemove(t, "gen_logits_mask_ph", mb)),
                  Stack),
             PadSeq)

\* torch.cat([all_gen_tokens[i], torch.full(pad_shape, pad_token_id)], dim=1)
PadGenTokens(ph, length) ==
    ph \o [i \in 1 .. (length - Len(ph)) |-> [q \in Sequences |-> pad_token_id]]

\* gen_tokens as returned: the stacked tokens of every micro batch, padded to
\* the length of the longest
GatheredGenTokens(st) ==
    LET max_gen_tokens_length ==
            CHOOSE n \in {Len(st.gen_token_ph[mb]) : mb \in MicroBatches} :
                \A mb \in MicroBatches : Len(st.gen_token_ph[mb]) <= n
    IN  [mb \in MicroBatches |-> PadGenTokens(st.gen_token_ph[mb], max_gen_tokens_length)]

maybe_gather_generate_outputs(s, st) ==
    IF ~is_last_stage(s) THEN st
    ELSE LET Ret(t) == [t EXCEPT !.gen_tokens = GatheredGenTokens(st)]
         IN  Then(ForEachMb(LAMBDA t, mb : Get(t, "prompt_logits", mb),
                            ForEachMb(gather_generate_mb, st, MbRange), MbRange),
                  Ret)

\* the values of entries that are no longer in the tensor buffer are gone; the cache
\* lengths live in the PipeCacheData objects stored under batch_input_ys
Forget(st) ==
    LET Val(tag, field, default) ==
            [mb \in MicroBatches |-> IF Has(st, tag, mb) THEN field[mb] ELSE default]
    IN  [st EXCEPT !.terminate = Val("terminate", st.terminate, FALSE),
                   !.kv_cache_reserved = Val("kv_cache_reserved", st.kv_cache_reserved, FALSE),
                   !.generated_idx = Val("generated_idx", st.generated_idx, 0),
                   !.first_token = Val("first_token", st.first_token, FALSE),
                   !.unfinished_sequences = Val("unfinished_sequences", st.unfinished_sequences,
                                                [q \in Sequences |-> 0]),
                   !.cache_seqlens = Val("batch_input_ys", st.cache_seqlens, -1),
                   !.kv_cache = Val("batch_input_ys", st.kv_cache, {}),
                   !.gen_token_ph = Val("gen_token_ph", st.gen_token_ph, <<>>),
                   !.losses = Val("losses", st.losses, NoLoss),
                   !.stats = Val("stats", st.stats, NoLoss),
                   !.activation_grad = {mb \in st.activation_grad : Has(st, "activation", mb)}]

\* avg_loss = torch.stack(losses).mean(); avg_stats[key] = torch.stack(...).mean()
avg_loss_stats_Sum(st) ==
    [st EXCEPT !.avg_ret = <<RatSum(st.losses, num_micro_batches), StackMean(st.stats)>>]

avg_loss_stats(st) ==
    [st EXCEPT !.avg_ret = <<StackMean(st.losses), StackMean(st.stats)>>]

\* the statements of forward / eval_batch / train_batch / generate after _exec_schedule
post_call(s, st) ==
    CASE call = "forward" ->
            Then(IF is_last_stage(s) THEN ForEachMb(gather_logits_mb, st, MbRange) ELSE st,
                 post_forward)
      [] call = "eval_batch" ->
            Then(IF is_last_stage(s)
                 THEN Then(ForEachMb(gather_losses_mb, st, MbRange), avg_loss_stats)
                 ELSE [st EXCEPT !.avg_ret = <<NoLoss, NoLoss>>],
                 post_eval_batch)
      [] call = "train_batch" ->
            Then(IF is_last_stage(s)
                 THEN Then(ForEachMb(gather_losses_mb, st, MbRange), avg_loss_stats)
                 ELSE [st EXCEPT !.avg_ret = <<NoLoss, NoLoss>>],
                 post_eval_batch)
      [] OTHER -> Then(maybe_gather_generate_outputs(s, st), post_generate)

PostCall(s) ==
    /\ s \in Stages
    /\ epc[s] = "post"
    /\ \E returned \in {post_call(s, Local(s))} :
       \E st \in {Forget(returned)} :
           /\ SetLocal(s, st)
           /\ epc' = [epc EXCEPT ![s] = IF st.raised THEN "error" ELSE "done"]
    /\ UNCHANGED <<cvars, gconfig, mode, step_idx, cmd_idx, comm_part, will_break,
                   burn_out_steps, step_count, exec_log, term_step, wallvars>>

(***************************************************************************)
(* Specifications                                                          *)
(***************************************************************************)
GenerationConfigs ==
    [max_new_tokens : 1 .. MaxNewTokens, min_new_tokens : 0 .. MaxMinNewTokens]

\* model_logits when the logits are not fixed, and gen_tokens before generate returns
\* (or when it returns None)
AnyLogits == <<>>
NoGenTokens == <<>>

\* no call of genstep by itself
NoGenstep == [returned |-> FALSE, args |-> <<>>, ret |-> <<>>]

\* no call of the single-process generate
NoGenerate == [pc |-> "none"]
NoCall == [pc |-> "none"]

\* the components that are run by themselves, none of them in use
UnitsIdle ==
    /\ train_step_fn = NoCall
    /\ worker_loop = NoCall
    /\ worker_server = NoCall
    /\ comm_init = NoCall

\* the fields of the engine after DeepSpeedPipelineEngine.__init__ on every stage
EngineFields(c, n, mbs, sp, g, raises, unknown) ==
    /\ call = c
    /\ loss_fn_raises = raises
    /\ unknown_cmd_step = unknown
    /\ num_stages = n
    /\ num_micro_batches = mbs
    /\ sequence_parallel = sp
    /\ gconfig = [s \in 0 .. (n - 1) |-> g]
    /\ caller = [max_new_tokens |-> g.max_new_tokens, returned |-> [s \in 0 .. (n - 1) |-> 0]]
    /\ epc = [s \in 0 .. (n - 1) |-> "idle"]
    /\ mode = [s \in 0 .. (n - 1) |-> ConstructedMode]
    /\ step_idx = [s \in 0 .. (n - 1) |-> 0]
    /\ cmd_idx = [s \in 0 .. (n - 1) |-> 0]
    /\ comm_part = [s \in 0 .. (n - 1) |-> 0]
    /\ will_break = [s \in 0 .. (n - 1) |-> FALSE]
    /\ burn_out_steps = [s \in 0 .. (n - 1) |-> 0]
    /\ step_count = [s \in 0 .. (n - 1) |-> 0]
    /\ tensor_buffer = [s \in 0 .. (n - 1) |-> {}]
    /\ terminate = [s \in 0 .. (n - 1) |-> [mb \in 0 .. (mbs - 1) |-> FALSE]]
    /\ kv_cache_reserved = [s \in 0 .. (n - 1) |-> [mb \in 0 .. (mbs - 1) |-> FALSE]]
    /\ generated_idx = [s \in 0 .. (n - 1) |-> [mb \in 0 .. (mbs - 1) |-> 0]]
    /\ first_token = [s \in 0 .. (n - 1) |-> [mb \in 0 .. (mbs - 1) |-> FALSE]]
    /\ unfinished_sequences =
          [s \in 0 .. (n - 1) |-> [mb \in 0 .. (mbs - 1) |-> [q \in Sequences |-> 0]]]
    /\ cache_seqlens = [s \in 0 .. (n - 1) |-> [mb \in 0 .. (mbs - 1) |-> -1]]
    /\ kv_cache = [s \in 0 .. (n - 1) |-> [mb \in 0 .. (mbs - 1) |-> {}]]
    /\ gen_token_ph = [s \in 0 .. (n - 1) |-> [mb \in 0 .. (mbs - 1) |-> <<>>]]
    /\ gen_tokens = [s \in 0 .. (n - 1) |-> NoGenTokens]
    /\ losses = [s \in 0 .. (n - 1) |-> [mb \in 0 .. (mbs - 1) |-> NoLoss]]
    /\ stats = [s \in 0 .. (n - 1) |-> [mb \in 0 .. (mbs - 1) |-> NoLoss]]
    /\ avg_ret = [s \in 0 .. (n - 1) |-> NotReturned]
    /\ activation_grad = [s \in 0 .. (n - 1) |-> {}]
    /\ written = [s \in 0 .. (n - 1) |-> {}]
    /\ exec_log = [s \in 0 .. (n - 1) |-> <<>>]
    /\ term_step = [s \in 0 .. (n - 1) |-> -1]

\* DeepSpeedPipelineEngine.__init__ on every stage
EngineConstructedWith(c, n, mbs, sp, g, raises, unknown) ==
    /\ EngineFields(c, n, mbs, sp, g, raises, unknown)
    /\ model_logits = AnyLogits
    /\ loss_fn_values = UnitLosses
    /\ genstep_io = NoGenstep
    /\ generate_fn = NoGenerate
    /\ UnitsIdle

\* ... with a loss function that does not raise, for the engine's own schedules
EngineConstructed(c, n, mbs, sp, g) == EngineConstructedWith(c, n, mbs, sp, g, {}, 0)

\* ModelWorker.__lazy_setup, before the first _poll
WorkerConstructedFor(requests, cfg) ==
    /\ next_id = 0
    /\ sent = <<>>
    /\ acked = {}
    /\ inbox = <<>>
    /\ posted = <<>>
    /\ wpc = "idle"
    /\ recv_left = 0
    /\ work_left = 0
    /\ hook_log = [r \in 1 .. requests |-> <<>>]
    /\ exception = NoException
    /\ config = cfg
    /\ lazy_setup

WorkerConstructed == WorkerConstructedFor(MaxRequests, DefaultConfig)

\* The request dispatcher of a model worker; its engine is idle
Init ==
    /\ WorkerConstructed
    /\ EngineConstructed("forward", 2, 1, FALSE, [max_new_tokens |-> 1, min_new_tokens |-> 0])

Next ==
    \/ MasterSendRequest
    \/ MasterSendAck
    \/ PollStart
    \/ ReceiveLoop
    \/ PromoteWait
    \/ PromoteOne
    \/ PromoteDone
    \/ WorkStep
    \/ WorkDone
    \/ maybe_post_responses

Spec == Init /\ [][Next]_vars

\* The pipeline engine: every stage runs one call of the same method
EngineInit ==
    /\ WorkerConstructed
    /\ \E c \in Calls, n \in 2 .. MaxStages, mbs \in 1 .. MaxMicroBatches,
          sp \in BOOLEAN, g \in GenerationConfigs :
          EngineConstructed(c, n, mbs, sp, g)

EngineNext ==
    \E s \in 0 .. (MaxStages - 1) :
        \/ EngineCall(s)
        \/ ExecSkip(s)
        \/ ExecLocal(s)
        \/ P2PTransfer(s)
        \/ EndStep(s)
        \/ PostCall(s)

SpecEngine == EngineInit /\ [][EngineNext]_vars

\* ... where the call is generate
GenerateInit == EngineInit /\ call = "generate"

\* genstep by itself, outside any engine: one call with arguments of every shape
GenstepRows == 1 .. (BatchLength + 1)

GenstepArgs ==
    [next_token_logits : LogitRows(GenstepRows),
     unfinished_sequences : [GenstepRows -> {0, 1}],
     generated_idx : 0 .. MaxNewTokens,
     gconfig : GenerationConfigs]

GenstepInit ==
    /\ WorkerConstructed
    /\ EngineFields("generate", 0, 1, FALSE, [max_new_tokens |-> 1, min_new_tokens |-> 0],
                    {}, 0)
    /\ model_logits = AnyLogits
    /\ loss_fn_values = UnitLosses
    /\ \E a \in GenstepArgs : genstep_io = [returned |-> FALSE, args |-> a, ret |-> <<>>]
    /\ generate_fn = NoGenerate
    /\ UnitsIdle

GenstepCall ==
    /\ ~genstep_io.returned
    /\ genstep_io.args # <<>>
    /\ \E sampled \in genstep_next_tokens(genstep_io.args.next_token_logits,
                                           genstep_io.args.generated_idx,
                                           genstep_io.args.gconfig) :
          genstep_io' = [genstep_io EXCEPT
                            !.returned = TRUE,
                            !.ret = genstep(sampled, genstep_io.args.unfinished_sequences,
                                            genstep_io.args.generated_idx,
                                            genstep_io.args.gconfig)]
    /\ UNCHANGED <<callvars, generate_fn, unitvars, runvars, wallvars>>

SpecGenstep == GenstepInit /\ [][GenstepCall]_vars

\* genstep by itself, and genstep called by the engine in a generate call
GenstepEngineInit == GenerateInit \/ GenstepInit

GenstepEngineNext == EngineNext \/ GenstepCall

SpecGenstepEngine == GenstepEngineInit /\ [][GenstepEngineNext]_vars

(***************************************************************************)
(* generate (impl/model/nn/flash_mqat.py), the single-process generation   *)
(* loop, outside any engine.  resume: k_caches is not None.                *)
(***************************************************************************)
\* the locals of generate before "Prepare inputs for generation iterations"
GenerateEntered(g, resume) ==
    [pc |-> "prepare", resume |-> resume, gconfig |-> g, terminate |-> FALSE,
     generated_idx |-> 0, unfinished_sequences |-> [q \in GenstepRows |-> 1],
     gen_token_ph |-> <<>>]

GenerateFnInit ==
    /\ UnitsIdle
    /\ WorkerConstructed
    /\ EngineFields("generate", 0, 1, FALSE, [max_new_tokens |-> 1, min_new_tokens |-> 0],
                    {}, 0)
    /\ model_logits = AnyLogits
    /\ loss_fn_values = UnitLosses
    /\ genstep_io = NoGenstep
    /\ \E g \in GenerationConfigs, resume \in BOOLEAN :
          generate_fn = GenerateEntered(g, resume)

\* genstep(logits, tokenizer, unfinished_sequences, generated_idx, gconfig) and the
\* four statements after it, over all logits the model may produce
GenerateFnGenstep(f) ==
    {LET r == genstep(sampled, f.unfinished_sequences, f.generated_idx, f.gconfig)
     IN  [f EXCEPT !.pc = "loop",
                   !.terminate = r.terminate,
                   !.unfinished_sequences = r.unfinished_sequences,
                   !.gen_token_ph = Append(@, r.next_tokens),
                   !.generated_idx = @ + 1] :
        sampled \in UNION {genstep_next_tokens(l, f.generated_idx, f.gconfig) :
                              l \in LogitRows(GenstepRows)}}

\* if k_caches is None: ... genstep ... else: ...
GenerateFnPrepare ==
    /\ generate_fn.pc = "prepare"
    /\ IF generate_fn.resume
       THEN generate_fn' = [generate_fn EXCEPT !.pc = "loop"]
       ELSE generate_fn' \in GenerateFnGenstep(generate_fn)
    /\ UNCHANGED <<callvars, genstep_io, unitvars, runvars, wallvars>>

\* one iteration of "while not terminate"
GenerateFnLoop ==
    /\ generate_fn.pc = "loop"
    /\ ~generate_fn.terminate
    /\ generate_fn' \in GenerateFnGenstep(generate_fn)
    /\ UNCHANGED <<callvars, genstep_io, unitvars, runvars, wallvars>>

\* the loop is left: gen_tokens = torch.stack(gen_token_ph, -1) ... return
GenerateFnReturn ==
    /\ generate_fn.pc = "loop"
    /\ generate_fn.terminate
    /\ generate_fn' = [generate_fn EXCEPT !.pc = "returned"]
    /\ UNCHANGED <<callvars, genstep_io, unitvars, runvars, wallvars>>

GenerateFnNext == GenerateFnPrepare \/ GenerateFnLoop \/ GenerateFnReturn

SpecGenerateFn == GenerateFnInit /\ [][GenerateFnNext]_vars

\* every generate call: the one of the pipeline engine and the single-process one
AnyGenerateInit == GenerateInit \/ GenerateFnInit

AnyGenerateNext == EngineNext \/ GenerateFnNext

SpecAnyGenerate == AnyGenerateInit /\ [][AnyGenerateNext]_vars

\* generate calls of the engine on a model whose logits are given: the logits of
\* micro batch mb at generated index i are a function of the parameters and the
\* prompts, which are the same whenever the call is repeated
\* logits with the high value somewhere in each row: Categorical(logits=...) does
\* not change when the same number is added to every logit of a row
NormalLogitRows(rows) ==
    {l \in LogitRows(rows) : \A q \in rows : \E u \in Vocab : \A v \in LogitValues : l[q][u] >= v}

\* micro batches with the same prompts get the same logits
DifferentLogits(l) ==
    Cardinality({l[mb] : mb \in DOMAIN l}) * Cardinality(UNION {DOMAIN l[mb] : mb \in DOMAIN l})

ModelLogits(n, mbs, g) ==
    [0 .. (mbs - 1) -> [0 .. (g.max_new_tokens + n - 2) -> NormalLogitRows(Sequences)]]

GreedyInit ==
    /\ WorkerConstructed
    /\ \E n \in 2 .. GreedyStages, mbs \in 1 .. GreedyMicroBatches,
          g \in {x \in GenerationConfigs : x.max_new_tokens <= GreedyNewTokens} :
          /\ EngineFields("generate", n, mbs, FALSE, g, {}, 0)
          /\ model_logits \in ModelLogits(n, mbs, g)
          /\ loss_fn_values = UnitLosses
          /\ DifferentLogits(model_logits) <= GreedyLogits
    /\ genstep_io = NoGenstep
    /\ generate_fn = NoGenerate
    /\ UnitsIdle

GreedyNext ==
    \E s \in 0 .. (GreedyStages - 1) :
        \/ EngineCall(s)
        \/ ExecSkip(s)
        \/ ExecLocal(s)
        \/ P2PTransfer(s)
        \/ EndStep(s)
        \/ PostCall(s)

SpecGreedy == GreedyInit /\ [][GreedyNext]_vars

\* The pipeline engine with a loss function that may raise, or with a
\* pipe_schedule that holds an instruction of a type the engine does not know
FaultyCalls == {"eval_batch", "train_batch", "generate"}

EngineFaultInit ==
    /\ WorkerConstructed
    /\ \E c \in FaultyCalls, mbs \in 1 .. MaxFaultMicroBatches,
          g \in {x \in GenerationConfigs : x.min_new_tokens = 0},
          raises \in SUBSET (0 .. (MaxFaultMicroBatches - 1)),
          unknown \in 0 .. MaxUnknownStep :
          /\ (raises # {} => c # "generate")
          /\ EngineConstructedWith(c, FaultStages, mbs, FALSE, g, raises, unknown)

EngineFaultNext ==
    \E s \in 0 .. (FaultStages - 1) :
        \/ EngineCall(s)
        \/ ExecSkip(s)
        \/ ExecLocal(s)
        \/ ExecUnknown(s)
        \/ P2PTransfer(s)
        \/ EndStep(s)
        \/ PostCall(s)

SpecEngineFaults == EngineFaultInit /\ [][EngineFaultNext]_vars

(***************************************************************************)
(* Properties of the pipeline engine                                       *)
(***************************************************************************)
Min(a, b) == IF a <= b THEN a ELSE b

AllDone == \A s \in Stages : epc[s] = "done"

LeftLoop(s) == epc[s] \in {"post", "done"}

\* the schedule steps taken after terminate_condition first returned true
FurtherSteps(s) == step_count[s] - term_step[s]

\* what the burn-out asks for: n_stages - 1 on the last stage, none on the stage
\* before it, one on every other stage
C4_Expected(s) ==
    IF s = num_stages - 1 THEN num_stages - 1
    ELSE IF s = num_stages - 2 THEN 0
    ELSE 1

\* C4: in a generate call, a stage whose terminate_condition has returned true takes
\* exactly n_stages - 1 (last stage), 0 (stage n_stages - 2) or 1 (other stages)
\* further schedule steps, or the steps the schedule still has if these are fewer, and
\* then leaves the loop; a stage whose terminate_condition never returned true leaves
\* the loop only when the schedule is exhausted.
C4_BurnOutSteps ==
    \A s \in Stages :
        call = "generate" =>
            /\ (epc[s] = "exec" /\ term_step[s] # -1) => FurtherSteps(s) < C4_Expected(s)
            /\ (LeftLoop(s) /\ term_step[s] # -1) =>
                  FurtherSteps(s) = Min(C4_Expected(s), Len(Sched(s)) - term_step[s])
            /\ (LeftLoop(s) /\ term_step[s] = -1) => step_count[s] = Len(Sched(s))

\* three stages that all saw the termination before their schedules ended: the last
\* stage took two further steps, stage 1 none, stage 0 one
C4_Witness ==
    /\ call = "generate"
    /\ num_stages = 3
    /\ AllDone
    /\ \A s \in Stages : term_step[s] # -1 /\ step_count[s] < Len(Sched(s))
    /\ FurtherSteps(2) = 2
    /\ FurtherSteps(1) = 0
    /\ FurtherSteps(0) = 1

\* the log entries of stage s that satisfy P
Entries2(s, P(_)) == {i \in 1 .. Len(exec_log[s]) : P(exec_log[s][i])}

\* the instructions stage s executed in the schedule step with the given id
ExecutedInStep(s, k) ==
    LET idx == Entries2(s, LAMBDA e : e.step_id = k)
        F[i \in 0 .. Len(exec_log[s])] ==
            IF i = 0 THEN <<>>
            ELSE IF i \in idx THEN Append(F[i - 1], exec_log[s][i].type) ELSE F[i - 1]
    IN  F[Len(exec_log[s])]

CmdTypes(cmds) == [i \in 1 .. Len(cmds) |-> cmds[i].type]

\* the step with id k is over on stage s
StepOver(s, k) == LeftLoop(s) \/ (epc[s] = "exec" /\ step_idx[s] > k + 1)

HasEntry(s, P(_)) == Entries2(s, P) # {}

FairGenerateInit == GenerateInit /\ ~sequence_parallel

SpecGenerateFair ==
    /\ FairGenerateInit
    /\ [][EngineNext]_vars
    /\ WF_vars(EngineNext)

\* every micro batch has terminate = true on the last stage, which is still
\* in _exec_schedule
LastStageTerminated ==
    /\ call = "generate"
    /\ epc[num_stages - 1] = "exec"
    /\ \A mb \in MicroBatches : terminate[num_stages - 1][mb]

\* stage s has left _exec_schedule: after it observed termination (and ran its
\* burn-out steps, see C4), or because its schedule yields no further step
ObservedAndLeft(s) ==
    /\ LeftLoop(s)
    /\ term_step[s] # -1 \/ step_count[s] = Len(Sched(s))

RECURSIVE Flatten(_)
\* the instructions of a schedule, in the order of their emission
Flatten(steps) ==
    IF steps = <<>> THEN <<>> ELSE Head(steps).cmds \o Flatten(Tail(steps))

\* the micro batches of the instructions of one type in a schedule, in order
CommSeq(sched, type) ==
    LET cmds == Flatten(sched)
        sel == SelectSeq(cmds, LAMBDA c : c.type = type)
    IN  [i \in 1 .. Len(sel) |-> sel[i].micro_batch_id]

\* sched maps every stage to its instruction stream: stage by stage, the k-th
\* send of a kind and the k-th receive of that kind at the peer are for the same
\* micro batch, and no stage emits a send or a receive that has no peer
Paired(sched) ==
    /\ \A s \in Stages :
          /\ CommSeq(sched[s], "SendActivation") =
                IF is_last_stage(s) THEN <<>> ELSE CommSeq(sched[s + 1], "RecvActivation")
          /\ CommSeq(sched[s], "RecvGrad") =
                IF is_last_stage(s) THEN <<>> ELSE CommSeq(sched[s + 1], "SendGrad")
          /\ is_first_stage(s) =>
                CommSeq(sched[s], "RecvActivation") = <<>> /\ CommSeq(sched[s], "SendGrad") = <<>>
          /\ ~is_last_stage(s) => CommSeq(sched[s], "SendNextTokens") = <<>>
          /\ ~is_first_stage(s) => CommSeq(sched[s], "RecvNextTokens") = <<>>
    /\ CommSeq(sched[num_stages - 1], "SendNextTokens") = CommSeq(sched[0], "RecvNextTokens")

\* every micro batch occurs exactly once among the instructions of that type
OncePerMicroBatch(sched, type) ==
    LET q == CommSeq(sched, type)
    IN  /\ Len(q) = num_micro_batches
        /\ \A mb \in MicroBatches : \E i \in 1 .. Len(q) : q[i] = mb

\* the values max_new_tokens takes in generate: the caller's, and the caller's
\* plus num_stages - 1
TokenBudgets == 1 .. (MaxNewTokens + num_stages - 1)

\* the receive that matches a send
MatchingRecv(type) ==
    CASE type = "SendActivation" -> "RecvActivation"
      [] type = "SendGrad" -> "RecvGrad"
      [] OTHER -> "RecvNextTokens"

\* every executed send completed together with the matching receive of the same
\* micro batch, and every executed receive with such a send
ExecutedPaired ==
    \A s \in Stages : \A i \in 1 .. Len(exec_log[s]) :
        LET e == exec_log[s][i]
        IN  /\ e.type \in SendTypes =>
                  e.peer_type = MatchingRecv(e.type) /\ e.peer_mb = e.micro_batch_id
            /\ e.type \in RecvTypes =>
                  e.type = MatchingRecv(e.peer_type) /\ e.peer_mb = e.micro_batch_id

\* the instruction streams of the three schedules for the stages and micro
\* batches of the run
SchedulesPaired ==
    /\ LET inference == [s \in Stages |->
                            InferenceSchedule(num_micro_batches, num_stages, s)]
           train == [s \in Stages |-> TrainSchedule(num_micro_batches, num_stages, s)]
       IN  /\ Paired(inference)
           /\ Paired(train)
           /\ \A s \in Stages :
                 /\ ~is_last_stage(s) =>
                       /\ OncePerMicroBatch(inference[s], "SendActivation")
                       /\ OncePerMicroBatch(train[s], "SendActivation")
                       /\ OncePerMicroBatch(train[s], "RecvGrad")
                 /\ ~is_first_stage(s) =>
                       /\ OncePerMicroBatch(inference[s], "RecvActivation")
                       /\ OncePerMicroBatch(train[s], "RecvActivation")
                       /\ OncePerMicroBatch(train[s], "SendGrad")
    /\ \A t \in TokenBudgets :
          Paired([s \in Stages |-> GenerateSchedule(num_micro_batches, num_stages, s, t)])

\* C7: in the instruction streams of the Inference, Train and Generate schedules
\* every SendActivation of stage s for a micro batch has exactly one matching
\* RecvActivation of stage s+1, every SendGrad of stage s+1 exactly one matching
\* RecvGrad of stage s, every SendNextTokens of the last stage exactly one
\* matching RecvNextTokens of the first stage, and no send or receive is
\* unmatched; the sends and receives the engine executes complete in these pairs.
\* (The streams depend on the numbers of stages and micro batches only, which a
\* run never changes: they are examined where the run starts.)
C7_SendRecvPairing ==
    /\ (\A s \in Stages : epc[s] = "idle") => SchedulesPaired
    /\ ExecutedPaired

\* a train batch over three stages and two micro batches has completed: the
\* middle stage has sent and received activations and gradients of both micro
\* batches; and the generate schedules of these stages hold SendNextTokens
C7_Witness ==
    /\ call = "train_batch"
    /\ num_stages = 3
    /\ num_micro_batches = 2
    /\ AllDone
    /\ \A mb \in MicroBatches :
          \A type \in {"SendActivation", "RecvActivation", "SendGrad", "RecvGrad"} :
              HasEntry(1, LAMBDA e : e.type = type /\ e.micro_batch_id = mb
                                      /\ e.peer_mb = mb)
    /\ CommSeq(GenerateSchedule(num_micro_batches, num_stages, num_stages - 1, 2),
               "SendNextTokens") # <<>>

(***************************************************************************)
(* The KV cache of a micro batch within one generate call                  *)
(***************************************************************************)
\* the ForwardPass instructions stage s has executed for micro batch mb
ForwardPasses(s, mb) ==
    {i \in 1 .. Len(exec_log[s]) :
        exec_log[s][i].type = "ForwardPass" /\ exec_log[s][i].micro_batch_id = mb}

\* C8: in a generate call, for every stage and micro batch, kv_cache_reserved is
\* false before the first ForwardPass of the micro batch and true from then on
\* up to _post_generate; the first ForwardPass sets cache_seqlens to the prompt
\* lengths (offset 0) without incrementing it, every later ForwardPass increments
\* it by exactly 1 and nothing else changes it; after _post_generate neither the
\* reservation flag nor the cache data (batch_input_ys) is in the tensor buffer.
C8_KvCacheLifecycle ==
    call = "generate" =>
        \A s \in Stages : \A mb \in MicroBatches :
            LET fwd == ForwardPasses(s, mb)
            IN  /\ \A i \in fwd :
                      LET e == exec_log[s][i]
                          first == \A j \in fwd : j >= i
                      IN  /\ e.reserved_before = ~first
                          /\ e.first_step = first
                          /\ first => e.seqlens_before = -1 /\ e.seqlens_after = 0
                          /\ ~first => e.seqlens_after = e.seqlens_before + 1
                /\ epc[s] \in {"exec", "post"} =>
                      /\ <<"kv_cache_reserved", mb>> \in tensor_buffer[s]
                      /\ kv_cache_reserved[s][mb] = (fwd # {})
                      /\ cache_seqlens[s][mb] = Cardinality(fwd) - 1
                /\ epc[s] = "done" =>
                      /\ <<"kv_cache_reserved", mb>> \notin tensor_buffer[s]
                      /\ <<"batch_input_ys", mb>> \notin tensor_buffer[s]
                      /\ ~kv_cache_reserved[s][mb]
                      /\ cache_seqlens[s][mb] = -1

\* a generate call over two micro batches has returned on every stage; the first
\* stage ran a first and two later ForwardPasses for micro batch 1
C8_Witness ==
    /\ call = "generate"
    /\ num_micro_batches = 2
    /\ AllDone
    /\ Cardinality(ForwardPasses(0, 1)) >= 3
    /\ HasEntry(0, LAMBDA e : e.type = "ForwardPass" /\ e.micro_batch_id = 1
                               /\ e.first_step /\ ~e.reserved_before)
    /\ HasEntry(0, LAMBDA e : e.type = "ForwardPass" /\ e.micro_batch_id = 1
                               /\ ~e.first_step /\ e.seqlens_after = 2)

(***************************************************************************)
(* The tensor buffer after the _post_* phase of a call                     *)
(***************************************************************************)
\* the tags under which the tensor buffer of stage s holds an entry
TagsHeld(s) == {e[1] : e \in tensor_buffer[s]}

\* C9: after forward, eval_batch, train_batch or generate has run its _post_*
\* phase, the tensor buffer holds no entry under any tag that was written
\* during the call (by _prepare_input or by an instruction handler).
C9_BufferClean ==
    \A s \in Stages : epc[s] = "done" => TagsHeld(s) \cap written[s] = {}

(***************************************************************************)
(* The order of the instructions of a micro batch in a train batch         *)
(***************************************************************************)
TrainOrder ==
    <<"RecvActivation", "ForwardPass", "SendActivation", "RecvGrad", "BackwardPass", "SendGrad">>

\* the instructions of TrainOrder that exist on stage s
TrainOrderOn(s) ==
    SelectSeq(TrainOrder,
              LAMBDA t : /\ is_first_stage(s) => t \notin {"RecvActivation", "SendGrad"}
                         /\ is_last_stage(s) => t \notin {"SendActivation", "RecvGrad"})

\* the types of the instructions stage s has executed for micro batch mb, in order
ExecutedFor(s, mb) ==
    LET sel == SelectSeq(exec_log[s], LAMBDA e : e.micro_batch_id = mb
                                                  /\ e.type \in SendTypes \cup RecvTypes
                                                        \cup {"ForwardPass", "BackwardPass"})
    IN  [i \in 1 .. Len(sel) |-> sel[i].type]

\* C10: in a train batch every stage executes, for every micro batch, the
\* instructions RecvActivation, ForwardPass, SendActivation, RecvGrad,
\* BackwardPass, SendGrad in this order (without the ones that do not exist on
\* the first or last stage), all of them by the end of the schedule, and no
\* handler raises: BackwardPass finds batch_output_x and, on a non-last stage, the
\* received grad; SendGrad finds the activation with the gradient BackwardPass
\* has produced.
C10_TrainOrder ==
    call = "train_batch" =>
        \A s \in Stages :
            /\ epc[s] # "error"
            /\ \A mb \in MicroBatches :
                  /\ IsPrefix(ExecutedFor(s, mb), TrainOrderOn(s))
                  /\ LeftLoop(s) => ExecutedFor(s, mb) = TrainOrderOn(s)

\* a train batch over three stages and two micro batches has returned; the
\* middle stage has executed all six instructions for micro batch 1, the first
\* and the last stage their four
C10_Witness ==
    /\ call = "train_batch"
    /\ num_stages = 3
    /\ num_micro_batches = 2
    /\ AllDone
    /\ ExecutedFor(1, 1) = TrainOrder
    /\ ExecutedFor(0, 1) = <<"ForwardPass", "SendActivation", "RecvGrad", "BackwardPass">>
    /\ ExecutedFor(2, 1) = <<"RecvActivation", "ForwardPass", "BackwardPass", "SendGrad">>

(***************************************************************************)
(* The totals of the schedules                                             *)
(***************************************************************************)
\* the number of instructions of a type in a schedule
CountIn(sched, type) == Len(CommSeq(sched, type))

\* the number of instructions of a type stage s has executed
Executed(s, type) == Cardinality({i \in 1 .. Len(exec_log[s]) : exec_log[s][i].type = type})

RECURSIVE SumOverStages(_, _)
\* f[0] + ... + f[n - 1]
SumOverStages(f, n) == IF n = 0 THEN 0 ELSE f[n - 1] + SumOverStages(f, n - 1)

NotStarted == \A s \in Stages : epc[s] = "idle"

\* C11 as stated: summed over the stages, the ForwardPass instructions of a
\* schedule number n_mb, and so do the BackwardPass instructions of the
\* TrainSchedule
C11_TotalsOverStages ==
    NotStarted =>
        /\ SumOverStages([s \in Stages |->
                             CountIn(InferenceSchedule(num_micro_batches, num_stages, s),
                                     "ForwardPass")], num_stages) = num_micro_batches
        /\ SumOverStages([s \in Stages |->
                             CountIn(TrainSchedule(num_micro_batches, num_stages, s),
                                     "ForwardPass")], num_stages) = num_micro_batches
        /\ SumOverStages([s \in Stages |->
                             CountIn(TrainSchedule(num_micro_batches, num_stages, s),
                                     "BackwardPass")], num_stages) = num_micro_batches

\* the totals of the schedule of one stage
StageTotals(s) ==
    LET inference == InferenceSchedule(num_micro_batches, num_stages, s)
        train == TrainSchedule(num_micro_batches, num_stages, s)
    IN  /\ OncePerMicroBatch(inference, "ForwardPass")
        /\ CountIn(inference, "BackwardPass") = 0
        /\ OncePerMicroBatch(train, "ForwardPass")
        /\ OncePerMicroBatch(train, "BackwardPass")
        /\ CountIn(train, "OptimizerStep") = 1
        /\ CountIn(train, "ReduceGrads") = 1
        /\ \A t \in TokenBudgets :
              CountIn(GenerateSchedule(num_micro_batches, num_stages, s, t), "ForwardPass")
                 = num_micro_batches * t

\* C11, amended: the totals are per stage.  The schedule of every stage holds
\* exactly one ForwardPass per micro batch (Inference, Train; one per micro batch
\* and token in Generate), the TrainSchedule of every stage one BackwardPass per
\* micro batch, one ReduceGrads and one OptimizerStep; and a stage that has run
\* the schedule of forward, eval_batch or train_batch has executed that many.
C11_TotalsPerStage ==
    /\ NotStarted => \A s \in Stages : StageTotals(s)
    /\ \A s \in Stages :
          LeftLoop(s) /\ call # "generate" =>
              LET train == call = "train_batch"
              IN  /\ Executed(s, "ForwardPass") = num_micro_batches
                  /\ Executed(s, "BackwardPass") = IF train THEN num_micro_batches ELSE 0
                  /\ Executed(s, "ReduceGrads") = IF train THEN 1 ELSE 0
                  /\ Executed(s, "OptimizerStep") = IF train THEN 1 ELSE 0

\* a train batch over two stages and two micro batches has returned: each stage
\* has executed 2 ForwardPass, 2 BackwardPass, 1 ReduceGrads and 1 OptimizerStep
C11_Witness ==
    /\ call = "train_batch"
    /\ num_stages = 2
    /\ num_micro_batches = 2
    /\ AllDone
    /\ \A s \in Stages :
          /\ Executed(s, "ForwardPass") = 2
          /\ Executed(s, "BackwardPass") = 2
          /\ Executed(s, "ReduceGrads") = 1
          /\ Executed(s, "OptimizerStep") = 1

(***************************************************************************)
(* C12: the three modes are mutually exclusive and exactly one of          *)
(* _train_mode, _inference_mode, _generate_mode is set in every state      *)
(* after construction; forward and eval_batch run in inference mode,       *)
(* train_batch in train mode, generate in generate mode; _compute_loss is  *)
(* set exactly by eval_batch and train_batch.                              *)
(***************************************************************************)
ModesSet(m) == {f \in {"generate_mode", "train_mode", "inference_mode"} : m[f]}

ModeOfCall(s) ==
    /\ mode[s].inference_mode <=> call \in {"forward", "eval_batch"}
    /\ mode[s].train_mode <=> call = "train_batch"
    /\ mode[s].generate_mode <=> call = "generate"
    /\ mode[s].compute_loss <=> call \in {"eval_batch", "train_batch"}

C12_ModeFlags ==
    \A s \in Stages :
        /\ Cardinality(ModesSet(mode[s])) = 1
        /\ epc[s] = "idle" => mode[s] = ConstructedMode
        /\ epc[s] # "idle" => ModeOfCall(s)

C12_Witness ==
    /\ call = "train_batch"
    /\ AllDone
    /\ \A s \in Stages : ModesSet(mode[s]) = {"train_mode"} /\ mode[s].compute_loss

(***************************************************************************)
(* Properties of the model worker's parameter handles and exceptions       *)
(***************************************************************************)
\* the next iteration of the work loop runs the operation of the request at
\* the head of the work queue
AtOperation ==
    /\ wpc = "work"
    /\ work_left > 0
    /\ request_queue # <<>>
    /\ Len(Head(request_queue).request.pre_hooks) = 0
    /\ ~Head(request_queue).handled

\* ... and that iteration is taken in this step
OperationStep == AtOperation /\ request_queue' # request_queue

ComputeOnHandle ==
    /\ AtOperation
    /\ Head(request_queue).request.handle_name \in ComputeHandleNames
    /\ model_is_handle[Head(request_queue).request.handler]

C13_Step ==
    (ComputeOnHandle /\ OperationStep) =>
        \A r \in {ReqNo(Head(request_queue).request)} :
        /\ exception' = Exception("AssertionError", r)
        /\ wpc' = "crashed"
        /\ hook_log' = hook_log
        /\ compute_input_queues' = compute_input_queues
        /\ data_owner_storage' = data_owner_storage
        /\ model_is_handle' = model_is_handle
        /\ reply_queue' = reply_queue
        /\ posted' = posted
        /\ ~InWorkQueue(r)'

C13_State ==
    \A r \in 1 .. next_id :
       (exception = Exception("AssertionError", r)
          /\ sent[r].handle_name \in ComputeHandleNames) =>
             /\ wpc = "crashed"
             /\ model_is_handle[sent[r].handler]
             /\ ~Logged(r, OpEvent(sent[r].handle_name))
             /\ ~InWorkQueue(r)
             /\ RepliesQueued(r) + RepliesPosted(r) = 0

\* C13: a compute request (initialize, inference, train_step, generate,
\* evaluate, save) addressed to a model that is a handle on this worker is a
\* hard error: the assertion fails before anything of the operation is
\* executed (no input is taken, nothing is stored), the exception leaves
\* _poll, and no result is ever queued or posted for the request.
C13_HandleIsHardError == [] C13_State /\ [][C13_Step]_vars

\* a train_step on the model of replica 0 after a param_sync hook has turned
\* it into a handle: its data-transfer hook has run, the operation has not
C13_Witness ==
    \E r \in 1 .. next_id :
       /\ exception = Exception("AssertionError", r)
       /\ sent[r].handle_name = "train_step"
       /\ sent[r].handler = "M0"
       /\ model_is_handle["M0"]
       /\ Len(sent[r].pre_hooks) > 0
       /\ hook_log[r] = sent[r].pre_hooks
       /\ RepliesQueued(r) + RepliesPosted(r) = 0

\* a param_sync hook has been executed
ParamSyncLogged ==
    \E r \in 1 .. MaxRequests : \E i \in 1 .. Len(hook_log[r]) :
        hook_log[r][i].hook = "param_sync"

\* the work loop executes the hook CurHook in this step
HookStep == CurHook # NoHook /\ hook_log' # hook_log

C14_Constructed ==
    ~ParamSyncLogged => \A m \in Models : model_is_handle[m] <=> replica_id(m) # 0

C14_Step ==
    /\ model_is_handle' # model_is_handle => (HookStep /\ CurHook.hook = "param_sync")
    /\ (HookStep /\ CurHook.hook = "param_sync") =>
          \A m \in Models :
             /\ m = CurHook.to_model_name => ~model_is_handle'[m]
             /\ m = CurHook.from_model_name => model_is_handle'[m]
             /\ m \notin {CurHook.from_model_name, CurHook.to_model_name} =>
                   model_is_handle'[m] = model_is_handle[m]

\* C14: on a worker a model is materialized at construction exactly when its
\* replica_id is 0 and a handle otherwise; afterwards the status changes only
\* in the step that executes a param_sync hook, after which the hook's
\* from_model is a handle and its to_model is materialized (for whichever of
\* the two the worker hosts); no other hook and no operation changes it.
C14_HandleStatus == [] C14_Constructed /\ [][C14_Step]_vars

\* param_sync from replica 0 to replica 1 has run for a request that has been
\* answered: replica 0 is now the handle and replica 1 is materialized
C14_Witness ==
    \E r \in 1 .. next_id :
       /\ Logged(r, ParamSyncHook("M0", "M1"))
       /\ RepliesPosted(r) = 1
       /\ model_is_handle["M0"]
       /\ ~model_is_handle["M1"]

(***************************************************************************)
(* The worker alone keeps running: Worker.run calls _poll again and again, *)
(* and inside _poll every loop iteration is followed by the next.  The     *)
(* master is not obliged to send anything.                                 *)
(***************************************************************************)
WorkerNext ==
    \/ PollStart
    \/ ReceiveLoop
    \/ PromoteWait
    \/ PromoteOne
    \/ PromoteDone
    \/ WorkStep
    \/ WorkDone
    \/ maybe_post_responses

SpecWorkerFair == Init /\ [][Next]_vars /\ WF_vars(WorkerNext)

\* the ACK of the request at the head of the request cache has not arrived
AckMissing ==
    /\ wpc = "promote"
    /\ request_cache # <<>>
    /\ ~AckPresent(Head(request_cache))

\* _poll has returned (or an exception has left it)
TickOver == wpc \in {"idle", "crashed"}

\* C15: if the ACK of a cached request has not arrived, the worker's tick
\* still completes: the request stays in the request cache, the requests
\* already in the work queue keep being processed and answered, and the
\* cached request is promoted in a later tick once its ACK has arrived.
C15_TickCompletes == AckMissing ~> TickOver

\* what the code does instead: _poll never goes on to the work loop with a
\* request in the request cache
C15_CacheDrained == wpc \in {"work", "post"} => request_cache = <<>>

\* the worker is inside the inner while loop, the stream is empty, and an
\* acknowledged request sits in the work queue unprocessed
C15_Blocked ==
    /\ AckMissing
    /\ inbox = <<>>
    /\ request_queue # <<>>

\* the interface's function (or the loss function it runs) has raised while
\* the worker handled request r
UserCodeRaised(r) == exception = Exception("UserCodeError", r)

\* C16: an exception raised by user code (the loss function or the model
\* interface's inference, train_step, generate, evaluate or save) while a
\* worker handles a request is surfaced to the master in that request's
\* response, and the worker does not crash: it stays in its poll loop.
C16_UserErrorSurfaced ==
    \A r \in 1 .. next_id :
       UserCodeRaised(r) =>
          /\ wpc # "crashed"
          /\ RepliesQueued(r) + RepliesPosted(r) = 1

\* what the code does instead: the exception leaves _poll, the request is
\* dropped from the work queue and never answered
C16_UserErrorCrashes ==
    \A r \in 1 .. next_id :
       UserCodeRaised(r) =>
          /\ wpc = "crashed"
          /\ ~InWorkQueue(r)
          /\ RepliesQueued(r) + RepliesPosted(r) = 0

(***************************************************************************)
(* Exceptions inside _exec_schedule                                        *)
(***************************************************************************)
\* an exception has left _exec_schedule on stage s
Aborted(s) == epc[s] = "error" /\ step_idx[s] >= 1

\* the exception leaves _exec_schedule on stage s in this step
Aborts(s) == epc[s] = "exec" /\ epc'[s] = "error"

\* cmd is a ForwardPass in which the loss function raises
LossRaises(s, cmd) ==
    /\ cmd.type = "ForwardPass"
    /\ is_last_stage(s)
    /\ mode[s].compute_loss
    /\ cmd.micro_batch_id \in loss_fn_raises

\* the entry was logged for an instruction that comes before the one stage s stands at
BeforeCurCmd(s, e) ==
    \/ e.step_id < CurCmd(s).step_id
    \/ /\ e.step_id = CurCmd(s).step_id
       /\ \E j \in 1 .. (cmd_idx[s] - 1) :
             /\ CurStep(s).cmds[j].type = e.type
             /\ CurStep(s).cmds[j].micro_batch_id = e.micro_batch_id

C17_State ==
    \A s \in Stages :
       /\ \A i \in 1 .. Len(exec_log[s]) : exec_log[s][i].type \in InstructionMap
       /\ Aborted(s) =>
             /\ cmd_idx[s] <= Len(CurStep(s).cmds)
             /\ ~InInstructionMap(CurCmd(s)) \/ LossRaises(s, CurCmd(s))
             /\ \A i \in 1 .. Len(exec_log[s]) : BeforeCurCmd(s, exec_log[s][i])

C17_Step ==
    \A s \in Stages :
       /\ (Aborted(s) \/ Aborts(s)) =>
             /\ epc'[s] = "error"
             /\ exec_log'[s] = exec_log[s]
             /\ step_idx'[s] = step_idx[s]
             /\ cmd_idx'[s] = cmd_idx[s]
             /\ step_count'[s] = step_count[s]
       /\ Aborted(s) => Local(s)' = Local(s)
       /\ (Aborts(s) /\ ~InInstructionMap(CurCmd(s))) => Local(s)' = Local(s)

\* C17: an exception raised by an instruction handler during _exec_schedule
\* is raised again, which aborts the schedule at that instruction: the
\* instruction is not completed and no later instruction of the schedule is
\* executed on that stage.  An instruction whose type is not in
\* _INSTRUCTION_MAP raises a RuntimeError before anything of it is executed.
C17_AbortAtInstruction == [] C17_State /\ [][C17_Step]_vars

\* eval_batch on three stages: the loss function has raised in the first
\* ForwardPass of the last stage, and the first stage, after its two forward
\* passes and sends, has met the unknown instruction of step 4
C17_Witness ==
    /\ call = "eval_batch"
    /\ num_stages = 3
    /\ Aborted(2)
    /\ LossRaises(2, CurCmd(2))
    /\ ~Has(Local(2), "losses", CurCmd(2).micro_batch_id)
    /\ Aborted(0)
    /\ ~InInstructionMap(CurCmd(0))
    /\ Len(exec_log[0]) = 4

(***************************************************************************)
(* C18: in genstep with greedy = True, a row that is unfinished when the   *)
(* call starts never gets the EOS token while generated_idx is below       *)
(* gconfig.min_new_tokens, whatever the logits are, in particular when EOS *)
(* has the largest logit of the row; the row stays unfinished.  From       *)
(* generated_idx = min_new_tokens on EOS can be chosen: an unfinished row  *)
(* whose largest logit is the one of EOS gets EOS and becomes finished.    *)
(***************************************************************************)
EosIsLargest(row) == \A u \in Vocab \ {eos_token_id} : row[u] < row[eos_token_id]

GenstepReturned == genstep_io.returned

C18_EosMaskedBelowMin ==
    GenstepReturned =>
        \A q \in GenstepRows :
            genstep_io.args.unfinished_sequences[q] = 1 =>
                /\ genstep_io.args.generated_idx < genstep_io.args.gconfig.min_new_tokens
                      => /\ genstep_io.ret.next_tokens[q] # eos_token_id
                         /\ genstep_io.ret.unfinished_sequences[q] = 1
                /\ (/\ genstep_io.args.generated_idx >= genstep_io.args.gconfig.min_new_tokens
                    /\ EosIsLargest(genstep_io.args.next_token_logits[q]))
                      => /\ genstep_io.ret.next_tokens[q] = eos_token_id
                         /\ genstep_io.ret.unfinished_sequences[q] = 0

\* below min_new_tokens, every row unfinished, EOS the largest logit of each
C18_Witness ==
    /\ GenstepReturned
    /\ genstep_io.args.generated_idx < genstep_io.args.gconfig.min_new_tokens
    /\ \A q \in GenstepRows :
          /\ genstep_io.args.unfinished_sequences[q] = 1
          /\ EosIsLargest(genstep_io.args.next_token_logits[q])
          /\ genstep_io.ret.next_tokens[q] # eos_token_id

(***************************************************************************)
(* C19: genstep returns terminate = true exactly when generated_idx >=     *)
(* gconfig.max_new_tokens - 1 or no row is unfinished after the step.  In  *)
(* a generate call of the engine, on the last stage and for every micro    *)
(* batch, generated_idx is the number of ForwardPasses executed for the    *)
(* micro batch (one more per ForwardPass, nothing else changes it), and    *)
(* the terminate flag in the buffer is the value genstep returned in the   *)
(* latest of them: computed from the generated_idx before its increment,   *)
(* the unfinished flags after the step and the max_new_tokens of           *)
(* current_gconfig; before the first ForwardPass it is false.              *)
(***************************************************************************)
NoneUnfinished(unfinished) == \A q \in DOMAIN unfinished : unfinished[q] = 0

TerminateOf(gen_idx, g, unfinished_after) ==
    (gen_idx >= g.max_new_tokens - 1) \/ NoneUnfinished(unfinished_after)

C19_Terminate ==
    /\ GenstepReturned =>
          genstep_io.ret.terminate =
              TerminateOf(genstep_io.args.generated_idx, genstep_io.args.gconfig,
                          genstep_io.ret.unfinished_sequences)
    /\ \A s \in Stages : \A mb \in MicroBatches :
          (call = "generate" /\ is_last_stage(s) /\ epc[s] \in {"exec", "post"}) =>
              LET fwd == ForwardPasses(s, mb)
              IN  /\ generated_idx[s][mb] = Cardinality(fwd)
                  /\ terminate[s][mb] =
                        (/\ fwd # {}
                         /\ TerminateOf(generated_idx[s][mb] - 1, gconfig[s],
                                        unfinished_sequences[s][mb]))

\* the last of three stages has run two ForwardPasses for micro batch 0: the
\* flag is still false after the first and true after the second, because the
\* only sequence finished there while generated_idx was below max_new_tokens - 1
C19_Witness ==
    /\ call = "generate"
    /\ num_stages = 3
    /\ epc[2] = "exec"
    /\ generated_idx[2][0] = 2
    /\ generated_idx[2][0] - 1 < gconfig[2].max_new_tokens - 1
    /\ terminate[2][0]
    /\ NoneUnfinished(unfinished_sequences[2][0])
    /\ num_micro_batches = 2
    /\ generated_idx[2][1] = 1
    /\ ~terminate[2][1]

(***************************************************************************)
(* max_new_tokens as a cap on the tokens of a generate call                *)
(***************************************************************************)
\* the max_new_tokens of the caller's gconfig when generate was called on stage s
CallerMaxNewTokens(s) ==
    IF epc[s] = "idle" THEN gconfig[s].max_new_tokens
    ELSE gconfig[s].max_new_tokens - (num_stages - 1)

\* the generation steps of micro batch mb on the last stage: each appends one
\* token per sequence to gen_token_ph
TokensGenerated(mb) == Cardinality(ForwardPasses(num_stages - 1, mb))

\* the same for the single-process generate
TokensGeneratedFn == Len(generate_fn.gen_token_ph)

EngineGenerates == call = "generate" /\ num_stages > 0

\* C20: in every generate call, the one of the pipeline engine and the
\* single-process one, the number of generation steps of each micro batch, and
\* with it the number of tokens generated for each of its sequences, is at
\* most the max_new_tokens the caller configured.
C20_HardCap ==
    /\ EngineGenerates =>
          \A mb \in MicroBatches : TokensGenerated(mb) <= CallerMaxNewTokens(num_stages - 1)
    /\ generate_fn # NoGenerate => TokensGeneratedFn <= generate_fn.gconfig.max_new_tokens

\* the cap the engine keeps: the caller's max_new_tokens plus num_stages - 1
C20_EngineCap ==
    EngineGenerates =>
        \A mb \in MicroBatches :
            TokensGenerated(mb) <= CallerMaxNewTokens(num_stages - 1) + (num_stages - 1)

\* the single-process generate keeps the caller's cap
C20_FnCap == generate_fn # NoGenerate => TokensGeneratedFn <= generate_fn.gconfig.max_new_tokens

\* the last stage of a generate call has run num_stages - 1 generation steps
\* more than the caller's max_new_tokens for a micro batch none of whose
\* sequences ever chose EOS (the flags only go from 1 to 0)
C20_Exceeded ==
    /\ EngineGenerates
    /\ epc[num_stages - 1] = "exec"
    /\ \E mb \in MicroBatches :
          /\ TokensGenerated(mb) = CallerMaxNewTokens(num_stages - 1) + (num_stages - 1)
          /\ generated_idx[num_stages - 1][mb] = TokensGenerated(mb)
          /\ unfinished_sequences[num_stages - 1][mb] = [q \in Sequences |-> 1]

(***************************************************************************)
(* Greedy generation as a function of the inputs                           *)
(***************************************************************************)
\* the gconfig genstep sees in a generate call of the engine
CurrentGconfig == gconfig[num_stages - 1]

RECURSIVE RefMb(_, _)
\* micro batch mb after k generation steps, computed from the logits alone
RefMb(mb, k) ==
    IF k = 0
    THEN [unfinished |-> [q \in Sequences |-> 1], terminate |-> FALSE, ph |-> <<>>]
    ELSE LET p == RefMb(mb, k - 1)
             sampled == CHOOSE nt \in genstep_next_tokens(model_logits[mb][k - 1], k - 1,
                                                         CurrentGconfig) : TRUE
             r == genstep(sampled, p.unfinished, k - 1, CurrentGconfig)
         IN  [unfinished |-> r.unfinished_sequences, terminate |-> r.terminate,
              ph |-> Append(p.ph, r.next_tokens)]

RECURSIVE RefRun(_, _, _, _)
\* the generation steps of every micro batch when the steps of the last stage's
\* schedule are run one after the other as _exec_schedule runs them, from step k on
RefRun(k, count, wb, burn) ==
    IF k > GenerateMaxSteps(num_micro_batches, num_stages, CurrentGconfig.max_new_tokens)
    THEN count
    ELSE LET cmds == GenerateStep(num_micro_batches, num_stages, num_stages - 1,
                                  CurrentGconfig.max_new_tokens, k - 1).cmds
             fwd == IF wb /\ burn < num_stages - 1 THEN {}
                    ELSE {cmds[i].micro_batch_id : i \in {j \in 1 .. Len(cmds) :
                                                              cmds[j].type = "ForwardPass"}}
             next == [mb \in MicroBatches |-> IF mb \in fwd THEN count[mb] + 1 ELSE count[mb]]
             burn1 == IF wb THEN burn - 1 ELSE burn
             wb1 == wb \/ \A mb \in MicroBatches : RefMb(mb, next[mb]).terminate
         IN  IF wb1 /\ burn1 <= 0 THEN next ELSE RefRun(k + 1, next, wb1, burn1)

RefSteps == RefRun(1, [mb \in MicroBatches |-> 0], FALSE, num_stages - 1)

RefGenTokens ==
    GatheredGenTokens([gen_token_ph |-> [mb \in MicroBatches |-> RefMb(mb, RefSteps[mb]).ph]])

GreedyRun == call = "generate" /\ num_stages > 0 /\ model_logits # <<>>

\* C21: greedy generation is deterministic.  With the logits of the model fixed
\* by the inputs, the parameters and the generation configuration, every run of
\* generate, however the stages interleave, has on the last stage after the k-th
\* generation step of a micro batch the same tokens, unfinished flags and
\* terminate flag, runs the same number of steps, and returns the same
\* gen_tokens: the ones computed from the logits alone.
C21_GreedyDeterministic ==
    GreedyRun =>
        \A s \in Stages :
            /\ (is_last_stage(s) /\ epc[s] \in {"exec", "post"}) =>
                  \A mb \in MicroBatches :
                      LET ref == RefMb(mb, generated_idx[s][mb])
                      IN  /\ generated_idx[s][mb] <= RefSteps[mb]
                          /\ gen_token_ph[s][mb] = ref.ph
                          /\ unfinished_sequences[s][mb] = ref.unfinished
                          /\ terminate[s][mb] = ref.terminate
            /\ epc[s] = "post" /\ is_last_stage(s) =>
                  \A mb \in MicroBatches : generated_idx[s][mb] = RefSteps[mb]
            /\ epc[s] = "done" =>
                  gen_tokens[s] = IF is_last_stage(s) THEN RefGenTokens ELSE NoGenTokens
            /\ epc[s] # "error"

\* two micro batches have returned: the first chose EOS at once and was padded
\* from then on, the second got a tie of its logits at index 0 and two tokens
C21_Witness ==
    /\ GreedyRun
    /\ AllDone
    /\ num_micro_batches = 2
    /\ gen_tokens[num_stages - 1][0] = <<[q \in Sequences |-> eos_token_id],
                                         [q \in Sequences |-> pad_token_id]>>
    /\ Len(gen_tokens[num_stages - 1][1]) = 2
    /\ \A q \in Sequences : \A u \in Vocab : model_logits[1][0][q][u] = 2
    /\ gen_tokens[num_stages - 1][1][2] = [q \in Sequences |-> eos_token_id]

(***************************************************************************)
(* PackedSupervisedFinetuningInterface.train_step and Model.inc_version.   *)
(* One Model (one shard): its module is a DeepSpeedPipelineEngine or not,  *)
(* train_batch returns a loss on the last stage only, ft_spec is what the  *)
(* backend's initialize has set.                                           *)
(***************************************************************************)
MaxStepsPerEpoch == 3   \* ft_spec.steps_per_epoch: 1 .. MaxStepsPerEpoch
MaxTrainSteps == 7      \* train_step calls on one Model
Losses == {<<0>>, <<1>>} \* the loss tensor, a scalar (<<0>>: the tensor of 0.0)
EmptyDict == [key \in {} |-> 0]

ModelVersion == [epoch |-> 0, epoch_step |-> 0, global_step |-> 0]

inc_version_NoWrap(version, ft_spec) ==
    [version EXCEPT !.global_step = @ + 1, !.epoch_step = @ + 1]

\* the epoch ends one step late
inc_version_WrapLate(version, ft_spec) ==
    LET v == [version EXCEPT !.global_step = @ + 1, !.epoch_step = @ + 1]
    IN IF v.epoch_step > ft_spec.steps_per_epoch
       THEN [v EXCEPT !.epoch_step = 0, !.epoch = @ + 1]
       ELSE v

inc_version(version, ft_spec) ==
    LET v == [version EXCEPT !.global_step = @ + 1, !.epoch_step = @ + 1]
    IN IF v.epoch_step >= ft_spec.steps_per_epoch
       THEN [v EXCEPT !.epoch_step = 0, !.epoch = @ + 1]
       ELSE v

\* the loss train_step holds after the if/else over the module's type: the avg_loss
\* of train_batch (None unless this is the last stage), or the loss of
\* compute_packed_sft_loss
train_step_loss(pipeline, last_stage) ==
    IF pipeline /\ ~last_stage THEN {NoLoss} ELSE Losses

train_step_res_Truthy(loss) ==
    [key \in IF loss # NoLoss /\ loss[1] # 0 THEN {"loss"} ELSE {} |-> loss[1]]

train_step_res(loss) ==
    [key \in IF loss # NoLoss THEN {"loss"} ELSE {} |-> loss[1]]

SftInit ==
    /\ WorkerConstructed
    /\ EngineFields("forward", 0, 1, FALSE, [max_new_tokens |-> 1, min_new_tokens |-> 0],
                    {}, 0)
    /\ model_logits = AnyLogits
    /\ loss_fn_values = UnitLosses
    /\ genstep_io = NoGenstep
    /\ generate_fn = NoGenerate
    /\ worker_loop = NoCall
    /\ worker_server = NoCall
    /\ comm_init = NoCall
    /\ \E pipeline \in BOOLEAN, last_stage \in BOOLEAN, steps \in 1 .. MaxStepsPerEpoch :
          /\ last_stage => pipeline
          /\ train_step_fn = [pc |-> "constructed", pipeline |-> pipeline,
                              last_stage |-> last_stage,
                              ft_spec |-> [steps_per_epoch |-> steps],
                              version |-> ModelVersion, cur_epoch |-> 0,
                              cur_version |-> ModelVersion, loss |-> NoLoss,
                              res |-> EmptyDict, update_epoch_count |-> 0,
                              inc_version_calls |-> 0]

SftFrame ==
    UNCHANGED <<callvars, genstep_io, generate_fn, worker_loop, worker_server, comm_init,
                runvars, wallvars>>

\* one call of train_step that returns
train_step ==
    /\ train_step_fn.pc \in {"constructed", "returned"}
    /\ train_step_fn.version.global_step < MaxTrainSteps
    /\ \E loss \in train_step_loss(train_step_fn.pipeline, train_step_fn.last_stage) :
          LET cur_epoch == train_step_fn.version.epoch
              version == inc_version(train_step_fn.version, train_step_fn.ft_spec)
          IN train_step_fn' =
                 [train_step_fn EXCEPT
                     !.pc = "returned",
                     !.cur_version = train_step_fn.version,
                     !.cur_epoch = cur_epoch,
                     !.version = version,
                     !.inc_version_calls = @ + 1,
                     !.update_epoch_count = IF version.epoch > cur_epoch THEN @ + 1 ELSE @,
                     !.loss = loss,
                     !.res = train_step_res(loss)]
    /\ SftFrame

\* one call of train_step in which train_batch, the module, backward or step raises:
\* the lines after them are not reached
train_step_raises ==
    /\ train_step_fn.pc \in {"constructed", "returned"}
    /\ train_step_fn.version.global_step < MaxTrainSteps
    /\ train_step_fn' = [train_step_fn EXCEPT !.pc = "raised",
                                              !.cur_version = train_step_fn.version,
                                              !.cur_epoch = train_step_fn.version.epoch,
                                              !.loss = NoLoss, !.res = EmptyDict]
    /\ SftFrame

SftNext == train_step \/ train_step_raises

SpecSft == SftInit /\ [][SftNext]_vars

\* C23: a train_step call that has returned has advanced the model version by one step:
\* global_step by 1, epoch_step by 1 or, when that reaches steps_per_epoch, to 0 with
\* epoch + 1; and the returned dict has the key 'loss' exactly when the shard got a loss
\* (a loss of 0.0 included), with that loss as its value.
C23_VersionAdvanced ==
    train_step_fn.pc = "returned" =>
        LET before == train_step_fn.cur_version
            after == train_step_fn.version
            wraps == before.epoch_step + 1 = train_step_fn.ft_spec.steps_per_epoch
        IN /\ after.global_step = before.global_step + 1
           /\ after.epoch_step = IF wraps THEN 0 ELSE before.epoch_step + 1
           /\ after.epoch = IF wraps THEN before.epoch + 1 ELSE before.epoch
           /\ after.epoch_step < train_step_fn.ft_spec.steps_per_epoch
           /\ ("loss" \in DOMAIN train_step_fn.res) <=> (train_step_fn.loss # NoLoss)
           /\ train_step_fn.loss # NoLoss => train_step_fn.res["loss"] = train_step_fn.loss[1]
           /\ train_step_fn.loss = NoLoss <=>
                  (train_step_fn.pipeline /\ ~train_step_fn.last_stage)

\* the call that ends an epoch of 3 steps on a pipeline stage without a loss
C23_Witness ==
    /\ train_step_fn.pc = "returned"
    /\ train_step_fn.pipeline /\ ~train_step_fn.last_stage
    /\ train_step_fn.ft_spec.steps_per_epoch = 3
    /\ train_step_fn.cur_version = [epoch |-> 1, epoch_step |-> 2, global_step |-> 5]
    /\ train_step_fn.version = [epoch |-> 2, epoch_step |-> 0, global_step |-> 6]
    /\ DOMAIN train_step_fn.res = {}

(***************************************************************************)
(* eval_batch and train_batch with a loss function whose values are given  *)
(***************************************************************************)
LossStages == 2         \* pipeline stages of such a call: 2 .. LossStages
LossMicroBatches == 2   \* micro batches of such a call: 1 .. LossMicroBatches
MaxLoss == 2            \* the loss of a micro batch: 0 .. MaxLoss

LossInit ==
    /\ WorkerConstructed
    /\ \E c \in {"eval_batch", "train_batch"}, n \in 2 .. LossStages,
          mbs \in 1 .. LossMicroBatches :
          /\ EngineFields(c, n, mbs, FALSE, [max_new_tokens |-> 1, min_new_tokens |-> 0],
                          {}, 0)
          /\ loss_fn_values \in [0 .. (mbs - 1) -> 0 .. MaxLoss]
    /\ model_logits = AnyLogits
    /\ genstep_io = NoGenstep
    /\ generate_fn = NoGenerate
    /\ UnitsIdle

\* no instruction is skipped outside generate
LossNext ==
    \E s \in 0 .. (LossStages - 1) :
        \/ EngineCall(s)
        \/ ExecLocal(s)
        \/ P2PTransfer(s)
        \/ EndStep(s)
        \/ PostCall(s)

SpecLoss == LossInit /\ [][LossNext]_vars

LossRun == call \in {"eval_batch", "train_batch"} /\ loss_fn_values # UnitLosses

\* the sum of the losses the loss function returned for the micro batches
LossTotal == RatSum([mb \in MicroBatches |-> loss_fn(mb)], num_micro_batches)

Returned(s) == epc[s] = "done" /\ avg_ret[s] # NotReturned

\* C24: the loss eval_batch and train_batch return on the last stage is
\* (sum of loss_i) / n_mb, and loss and stats are None on every other stage.
C24_ReturnedAverage ==
    LossRun => \A s \in Stages :
        Returned(s) =>
            IF is_last_stage(s)
            THEN RatEq(avg_ret[s][1], RatDiv(LossTotal, num_micro_batches))
            ELSE avg_ret[s] = <<NoLoss, NoLoss>>

\* what the code returns: each stored loss is loss_i / n_mb and the mean of the stored
\* losses divides by n_mb once more, so avg_loss = (sum of loss_i) / n_mb^2; avg_stats
\* is the mean of the stats; both are None on the other stages.
C24_ReturnedLoss ==
    LossRun => \A s \in Stages :
        /\ \A mb \in MicroBatches :
              losses[s][mb] # NoLoss =>
                  /\ is_last_stage(s)
                  /\ RatEq(losses[s][mb], RatDiv(loss_fn(mb), num_micro_batches))
        /\ Returned(s) =>
              IF is_last_stage(s)
              THEN /\ RatEq(avg_ret[s][1],
                            RatDiv(LossTotal, num_micro_batches * num_micro_batches))
                   /\ RatEq(avg_ret[s][2], RatDiv(LossTotal, num_micro_batches))
              ELSE avg_ret[s] = <<NoLoss, NoLoss>>

\* two micro batches with the losses 2 and 1: the average is 3/2, returned is 3/4
C24_Halved ==
    /\ LossRun
    /\ call = "train_batch"
    /\ num_micro_batches = 2
    /\ loss_fn_values = (0 :> 2 @@ 1 :> 1)
    /\ AllDone
    /\ RatEq(avg_ret[num_stages - 1][1], Rat(3, 4))
    /\ RatEq(avg_ret[num_stages - 1][2], Rat(3, 2))
    /\ avg_ret[0] = <<NoLoss, NoLoss>>

(***************************************************************************)
(* The KV caches of the micro batches of a generate call                   *)
(***************************************************************************)
\* C25: the KV-cache memory of different micro batches of one generate call is disjoint
\* on every stage, so a ForwardPass of one micro batch never touches the cached keys
\* and values of another micro batch.
C25_DisjointRegions ==
    call = "generate" =>
        \A s \in Stages : \A a \in MicroBatches, b \in MicroBatches :
            a # b => kv_cache[s][a] \cap kv_cache[s][b] = {}

\* what the code does: a micro batch whose cache is reserved holds, for each layer of
\* the stage, the regions registered under that layer's two names, whichever the micro
\* batch is; regions of different stages (processes) and layers are different
C25_RegionsPerLayer ==
    call = "generate" =>
        \A s \in Stages : \A mb \in MicroBatches :
            /\ kv_cache[s][mb] \in {{}, {<<s, kv_cache_name(layer_idx, kv)>> :
                                            layer_idx \in layer_indices(s), kv \in {"k", "v"}}}
            /\ (kv_cache_reserved[s][mb] /\ Has(Local(s), "batch_input_ys", mb))
                   => kv_cache[s][mb] # {}
            /\ \A u \in Stages \ {s}, other \in MicroBatches :
                   kv_cache[s][mb] \cap kv_cache[u][other] = {}

\* on the first stage the cache of micro batch 1 has been reserved, zeroed and filled in
\* the region that micro batch 0 still uses
C25_Overwritten ==
    /\ call = "generate"
    /\ num_micro_batches >= 2
    /\ epc[0] = "exec"
    /\ kv_cache_reserved[0][0] /\ kv_cache_reserved[0][1]
    /\ generated_idx[num_stages - 1][0] >= 1
    /\ <<0, kv_cache_name(1, "k")>> \in kv_cache[0][0] \cap kv_cache[0][1]

(***************************************************************************)
(* reallm.system.worker_base: Worker.run and WorkerServer.handle_requests. *)
(* The controller puts requests into the worker's task queue; Worker.run   *)
(* serves them with handle_requests() and calls _poll() while the worker   *)
(* is started. handle_requests is also called by itself with a max_count.  *)
(***************************************************************************)
MaxCommands == 3        \* requests the controller sends to one worker
MaxCount == 2           \* max_count of a handle_requests call: 0 .. MaxCount, or None

\* the commands Worker.__init__ registers, and one that nobody registered
Handlers == {"configure", "reconfigure", "start", "pause", "exit", "interrupt", "ping"}
Commands == Handlers \cup {"no_such_command"}

WorkerFlags == [running |-> FALSE, exiting |-> FALSE, is_configured |-> FALSE]

\* Worker.__init__ and WorkerServer.__init__; by: who calls handle_requests
WorkerBaseConstructed(by) ==
    /\ worker_loop = [pc |-> IF by = "run" THEN "run" ELSE "direct",
                      flags |-> WorkerFlags, status |-> "READY", log |-> <<>>]
    /\ worker_server = [pc |-> "idle", task_queue |-> <<>>, requests |-> <<>>, count |-> 0,
                        limited |-> FALSE, max_count |-> 0, responses |-> <<>>,
                        taken |-> <<>>]

WorkerBaseInit ==
    /\ WorkerConstructed
    /\ EngineFields("forward", 0, 1, FALSE, [max_new_tokens |-> 1, min_new_tokens |-> 0],
                    {}, 0)
    /\ model_logits = AnyLogits
    /\ loss_fn_values = UnitLosses
    /\ genstep_io = NoGenstep
    /\ generate_fn = NoGenerate
    /\ train_step_fn = NoCall
    /\ comm_init = NoCall
    /\ \E by \in {"run", "direct"} : WorkerBaseConstructed(by)

WorkerBaseFrame ==
    UNCHANGED <<callvars, genstep_io, generate_fn, train_step_fn, comm_init, runvars,
                wallvars>>

\* the controller sends a request: it is queued in the worker's task queue
SendCommand ==
    /\ worker_loop.pc # "none"
    /\ Len(worker_server.requests) < MaxCommands
    /\ \E command \in Commands :
          worker_server' = [worker_server EXCEPT
                               !.requests = Append(@, command),
                               !.task_queue = Append(@, [id |-> Len(worker_server.requests) + 1,
                                                          command |-> command])]
    /\ UNCHANGED worker_loop
    /\ WorkerBaseFrame

\* The handlers of Worker: the flags and the status after the call, and what the call
\* returned or raised. _configure and _reconfigure are the subclass's and may raise.
Handled(flags, status, response, raised) ==
    [flags |-> flags, status |-> status, response |-> response, raised |-> raised]

configure(w, fails) ==
    IF w.flags.running THEN Handled(w.flags, w.status, "AssertionError", TRUE)
    ELSE IF fails THEN Handled(w.flags, w.status, "Exception", TRUE)
    ELSE Handled([w.flags EXCEPT !.is_configured = TRUE], w.status, "None", FALSE)

reconfigure(w, fails) ==
    IF w.flags.running THEN Handled(w.flags, w.status, "AssertionError", TRUE)
    ELSE IF fails
         THEN Handled([w.flags EXCEPT !.is_configured = FALSE], w.status, "Exception", TRUE)
    ELSE Handled([w.flags EXCEPT !.is_configured = TRUE], w.status, "None", FALSE)

start(w) == Handled([w.flags EXCEPT !.running = TRUE], "RUNNING", "None", FALSE)

pause(w) == Handled([w.flags EXCEPT !.running = FALSE], "PAUSED", "None", FALSE)

exit(w) == Handled([w.flags EXCEPT !.exiting = TRUE], "COMPLETED", "None", FALSE)

interrupt(w) == Handled(w.flags, "INTERRUPTED", "WorkerException", TRUE)

ping(w) == Handled(w.flags, w.status, "pong", FALSE)

\* self.__handlers[command](**kwargs)
CallHandler(command, w, fails) ==
    CASE command = "configure" -> configure(w, fails)
      [] command = "reconfigure" -> reconfigure(w, fails)
      [] command = "start" -> start(w)
      [] command = "pause" -> pause(w)
      [] command = "exit" -> exit(w)
      [] command = "interrupt" -> interrupt(w)
      [] OTHER -> ping(w)

\* one round of the while loop of handle_requests with a request in the queue
handle_request_CatchesAll(request, w, fails) ==
    IF request.command \in Handlers
    THEN LET h == CallHandler(request.command, w, fails)
         IN  [h EXCEPT !.raised = FALSE, !.response = <<h.response>>]
    ELSE Handled(w.flags, w.status, <<"KeyError">>, FALSE)

handle_request(request, w, fails) ==
    IF request.command \in Handlers
    THEN LET h == CallHandler(request.command, w, fails)
         IN  IF h.response = "WorkerException"
             THEN [h EXCEPT !.raised = TRUE, !.response = <<>>]       \* except ...: raise
             ELSE [h EXCEPT !.raised = FALSE, !.response = <<h.response>>]
    ELSE Handled(w.flags, w.status, <<"KeyError">>, FALSE)

\* Worker.run enters its loop, or runs `while not self.__exiting` again: it calls
\* handle_requests() or leaves the loop
RunLoop ==
    /\ worker_loop.pc \in {"run", "loop"}
    /\ worker_server.pc = "idle"
    /\ IF worker_loop.flags.exiting
       THEN /\ worker_loop' = [worker_loop EXCEPT !.pc = "returned"]
            /\ UNCHANGED worker_server
       ELSE /\ worker_loop' = [worker_loop EXCEPT !.pc = "handle_requests"]
            /\ worker_server' = [worker_server EXCEPT !.pc = "handling", !.count = 0,
                                                      !.limited = FALSE, !.max_count = 0]
    /\ WorkerBaseFrame

\* handle_requests(max_count) called by somebody else than Worker.run
DirectCall ==
    /\ worker_loop.pc = "direct"
    /\ worker_server.pc \in {"idle", "raised"}
    /\ \E limited \in BOOLEAN, max_count \in 0 .. MaxCount :
          /\ ~limited => max_count = 0
          /\ worker_server' = [worker_server EXCEPT !.pc = "handling", !.count = 0,
                                                    !.limited = limited,
                                                    !.max_count = max_count]
    /\ UNCHANGED worker_loop
    /\ WorkerBaseFrame

InWhile == ~worker_server.limited \/ worker_server.count < worker_server.max_count

\* handle_requests: one round of its loop, a request is taken, handled and answered
HandleRequest ==
    /\ worker_server.pc = "handling"
    /\ InWhile
    /\ worker_server.task_queue # <<>>
    /\ \E fails \in BOOLEAN :
       \E h \in {handle_request(Head(worker_server.task_queue), worker_loop, fails)} :
          /\ worker_server' =
                 [worker_server EXCEPT
                     !.task_queue = Tail(@),
                     !.taken = Append(@, Head(worker_server.task_queue).id),
                     !.responses = IF h.raised THEN @
                                   ELSE Append(@, [id |-> Head(worker_server.task_queue).id,
                                                   response |-> h.response[1]]),
                     !.count = IF h.raised THEN @ ELSE @ + 1,
                     !.pc = IF h.raised THEN "raised" ELSE @]
          /\ worker_loop' =
                 [worker_loop EXCEPT
                     !.flags = h.flags,
                     !.status = h.status,
                     !.log = Append(@, Head(worker_server.task_queue).command),
                     \* Worker.run: except Exception as e: ... raise e
                     !.pc = IF h.raised /\ @ = "handle_requests" THEN "raised" ELSE @]
    /\ WorkerBaseFrame

\* handle_requests returns: the queue is empty or max_count is reached
HandleReturn ==
    /\ worker_server.pc = "handling"
    /\ ~InWhile \/ worker_server.task_queue = <<>>
    /\ worker_server' = [worker_server EXCEPT !.pc = "idle"]
    /\ worker_loop' = [worker_loop EXCEPT
                          !.pc = IF @ = "handle_requests" THEN "handled" ELSE @]
    /\ WorkerBaseFrame

\* a second _poll in a row is not logged again
LogPoll(log) == IF log # <<>> /\ log[Len(log)] = "_poll" THEN log ELSE Append(log, "_poll")

\* Worker.run after handle_requests has returned: sleep and continue, or raise because
\* the worker is not configured, or call _poll (the subclass's, it may raise)
RunAfterRequests ==
    /\ worker_loop.pc = "handled"
    /\ IF ~worker_loop.flags.running
       THEN worker_loop' = [worker_loop EXCEPT !.pc = "loop"]
       ELSE IF ~worker_loop.flags.is_configured
       THEN worker_loop' = [worker_loop EXCEPT !.pc = "raised", !.status = "ERROR"]
       ELSE \E poll_raises \in BOOLEAN :
               worker_loop' = [worker_loop EXCEPT
                                  !.log = LogPoll(@),
                                  !.pc = IF poll_raises THEN "raised" ELSE "loop",
                                  !.status = IF poll_raises THEN "ERROR" ELSE @]
    /\ UNCHANGED worker_server
    /\ WorkerBaseFrame

WorkerBaseNext ==
    \/ SendCommand
    \/ RunLoop
    \/ DirectCall
    \/ HandleRequest
    \/ HandleReturn
    \/ RunAfterRequests

SpecWorkerBase == WorkerBaseInit /\ [][WorkerBaseNext]_vars

\* positions of the log
LogAt(event) == {i \in 1 .. Len(worker_loop.log) : worker_loop.log[i] = event}
PollsAt == LogAt("_poll")

\* C26: _poll is invoked only while the exit command has not been received and the
\* worker is started: no _poll after an exit command has been handled, and none after a
\* pause has been handled unless a start was handled in between.
C26_PollOnlyWhileStarted ==
    worker_loop.pc \notin {"none", "direct"} =>
        \A j \in PollsAt :
            /\ \A i \in LogAt("exit") : j < i
            /\ \E i \in LogAt("start") :
                  /\ i < j
                  /\ \A k \in LogAt("pause") : k < i \/ j < k

\* what Worker.run guarantees: every _poll follows a start with no pause in between and a
\* successful configure; after an exit has been handled there is at most the _poll of the
\* loop round that handled it, and handle_requests is not called again
C26_PollGuard ==
    worker_loop.pc \notin {"none", "direct"} =>
        /\ \A j \in PollsAt :
              /\ \E i \in LogAt("start") :
                    /\ i < j
                    /\ \A k \in LogAt("pause") : k < i \/ j < k
              /\ \E i \in LogAt("configure") \cup LogAt("reconfigure") : i < j
              /\ \A i \in LogAt("exit") : \A k \in PollsAt : (i < j /\ i < k) => j = k
        /\ worker_loop.pc = "handle_requests" /\ worker_server.pc = "handling"
              /\ worker_server.count = 0 /\ worker_server.taken = <<>>
              => ~worker_loop.flags.exiting
        /\ worker_loop.pc = "returned" => worker_loop.flags.exiting

\* configure, start and exit are handled in one call of handle_requests; _poll is called
\* after it, and then the loop ends
C26_PollAfterExit ==
    /\ worker_loop.pc = "returned"
    /\ worker_loop.log = <<"configure", "start", "exit", "_poll">>

\* the response a request may get by its command
ResponsesOf(command) ==
    CASE command \in {"start", "pause", "exit"} -> {"None"}
      [] command \in {"configure", "reconfigure"} -> {"None", "AssertionError", "Exception"}
      [] command = "ping" -> {"pong"}
      [] command = "interrupt" -> {}
      [] OTHER -> {"KeyError"}

\* the requests a WorkerException was raised for: taken from the queue, not answered
Unanswered ==
    {id \in 1 .. Len(worker_server.requests) :
        /\ \E i \in 1 .. Len(worker_server.taken) : worker_server.taken[i] = id
        /\ \A i \in 1 .. Len(worker_server.responses) : worker_server.responses[i].id # id}

\* C27: handle_requests takes the requests in queue order, at most max_count of them in
\* one call, and sends one response per handled request, in the same order: the
\* handler's return value, the exception the handler raised, or a KeyError for a command
\* without handler. The call goes on after such an error; only the WorkerException of
\* interrupt leaves it, with no response for that request.
C27_OneResponsePerRequest ==
    worker_server.pc # "none" =>
        LET taken == worker_server.taken
            responses == worker_server.responses
        IN  /\ taken = [i \in 1 .. Len(taken) |-> i]
            /\ Len(taken) + Len(worker_server.task_queue) = Len(worker_server.requests)
            /\ \A i \in 1 .. Len(worker_server.task_queue) :
                  worker_server.task_queue[i].id = Len(taken) + i
            /\ \A i \in 1 .. Len(responses) :
                  /\ responses[i].response \in ResponsesOf(worker_server.requests[responses[i].id])
                  /\ i > 1 => responses[i - 1].id < responses[i].id
            /\ \A id \in 1 .. Len(taken) :
                  IF worker_server.requests[id] = "interrupt"
                  THEN id \in Unanswered
                  ELSE \E i \in 1 .. Len(responses) : responses[i].id = id
            /\ worker_server.limited => worker_server.count <= worker_server.max_count
            /\ worker_server.pc = "raised" =>
                  /\ taken # <<>>
                  /\ worker_server.requests[taken[Len(taken)]] = "interrupt"

\* a call with max_count = 2 has answered an unknown command with a KeyError and a failed
\* configure with its exception and has returned; the third request waits in the queue
C27_Witness ==
    /\ worker_loop.pc = "direct"
    /\ worker_server.pc = "idle"
    /\ worker_server.limited /\ worker_server.max_count = 2 /\ worker_server.count = 2
    /\ worker_server.requests = <<"no_such_command", "configure", "ping">>
    /\ worker_server.responses = <<[id |-> 1, response |-> "KeyError"],
                                   [id |-> 2, response |-> "Exception"]>>
    /\ Len(worker_server.task_queue) = 1

\* the WorkerException of interrupt has left handle_requests: no response for it, and
\* the request behind it is still queued
C27_Interrupted ==
    /\ worker_server.pc = "raised"
    /\ worker_server.requests = <<"ping", "interrupt", "ping">>
    /\ worker_server.responses = <<[id |-> 1, response |-> "pong"]>>
    /\ worker_server.taken = <<1, 2>>
    /\ Len(worker_server.task_queue) = 1

(***************************************************************************)
(* Successive generate calls of one caller with the same GenerationConfig  *)
(* object                                                                  *)
(***************************************************************************)
RepeatStages == 2       \* pipeline stages of the repeated call
MaxGenerateCalls == 2   \* generate calls the caller makes with its config object

RepeatInit ==
    /\ WorkerConstructed
    /\ \E g \in GenerationConfigs :
          EngineFields("generate", RepeatStages, 1, FALSE, g, {}, 0)
    /\ model_logits = AnyLogits
    /\ loss_fn_values = UnitLosses
    /\ genstep_io = NoGenstep
    /\ generate_fn = NoGenerate
    /\ UnitsIdle

\* generate has returned on stage s; the caller calls it again with the same gconfig
CallAgain(s) ==
    /\ s \in Stages
    /\ call = "generate"
    /\ epc[s] = "done"
    /\ caller.returned[s] + 1 < MaxGenerateCalls
    /\ caller' = [caller EXCEPT !.returned[s] = @ + 1]
    /\ epc' = [epc EXCEPT ![s] = "idle"]
    /\ UNCHANGED <<call, num_stages, num_micro_batches, sequence_parallel, loss_fn_raises,
                   unknown_cmd_step, model_logits, loss_fn_values, config, genstep_io,
                   generate_fn,
                   unitvars, gconfig, mode, step_idx, cmd_idx, comm_part, will_break,
                   burn_out_steps, step_count, lvars, exec_log, term_step, wallvars>>

\* no instruction is skipped on two stages
RepeatNext ==
    \E s \in 0 .. (RepeatStages - 1) :
        \/ EngineCall(s)
        \/ ExecLocal(s)
        \/ P2PTransfer(s)
        \/ EndStep(s)
        \/ PostCall(s)
        \/ CallAgain(s)

SpecRepeat == RepeatInit /\ [][RepeatNext]_vars

\* the generate calls entered on stage s so far
CallsEntered(s) == caller.returned[s] + IF epc[s] = "idle" THEN 0 ELSE 1

\* C28: the num_stages - 1 that generate adds to max_new_tokens stays inside the call:
\* every call runs with the caller's max_new_tokens + num_stages - 1, also a later call
\* with the same config object, and between the calls the caller's config holds the
\* max_new_tokens the caller gave it.
C28_BudgetInternal ==
    call = "generate" =>
        \A s \in Stages :
            /\ epc[s] \in {"exec", "post"} =>
                   gconfig[s].max_new_tokens = caller.max_new_tokens + (num_stages - 1)
            /\ epc[s] \in {"idle", "done"} =>
                   gconfig[s].max_new_tokens = caller.max_new_tokens

\* what the code does: every call entered adds num_stages - 1 to the caller's object for
\* good
C28_BudgetAccumulates ==
    call = "generate" =>
        \A s \in Stages :
            epc[s] # "error" =>
                gconfig[s].max_new_tokens =
                    caller.max_new_tokens + CallsEntered(s) * (num_stages - 1)

\* the second call on the last stage runs with the caller's 1 + 2 and generates 3 tokens
C28_SecondCall ==
    /\ call = "generate"
    /\ caller.max_new_tokens = 1
    /\ caller.returned[num_stages - 1] = 1
    /\ epc[num_stages - 1] = "post"
    /\ gconfig[num_stages - 1].max_new_tokens = 3
    /\ generated_idx[num_stages - 1][0] = 3

(***************************************************************************)
(* The unfinished flags over the genstep calls of one generation           *)
(***************************************************************************)
\* ph: the next_tokens of the genstep calls so far, unfinished: the flags the last call
\* returned. For every row: the flag is 0 exactly when one of the steps chose EOS for
\* the row, only one step did, and every step after it emitted pad_token_id.
FinishedOnce(ph, unfinished) ==
    \A q \in DOMAIN unfinished :
        LET eos_steps == {i \in 1 .. Len(ph) : ph[i][q] = eos_token_id}
        IN  /\ unfinished[q] = 0 <=> eos_steps # {}
            /\ Cardinality(eos_steps) <= 1
            /\ \A i \in eos_steps : \A j \in (i + 1) .. Len(ph) : ph[j][q] = pad_token_id

\* C29: across the genstep calls of one generation, in the single-process generate and
\* on the last stage of the pipeline engine, a row is finished exactly from the step on
\* at which it was unfinished and chose EOS, it never becomes unfinished again, and
\* from the next step on its token is pad_token_id.
C29_FinishedStays ==
    /\ generate_fn.pc \in {"loop", "returned"} =>
           FinishedOnce(generate_fn.gen_token_ph, generate_fn.unfinished_sequences)
    /\ EngineGenerates =>
           \A s \in Stages : \A mb \in MicroBatches :
               (is_last_stage(s) /\ epc[s] \in {"exec", "post"}) =>
                   FinishedOnce(gen_token_ph[s][mb], unfinished_sequences[s][mb])

\* row 1 chose EOS at the first step and got pad_token_id at the second one, while row 2
\* went on generating
C29_Witness ==
    /\ generate_fn.pc = "returned"
    /\ Len(generate_fn.gen_token_ph) = 2
    /\ generate_fn.gen_token_ph[1][1] = eos_token_id
    /\ generate_fn.gen_token_ph[1][2] # eos_token_id
    /\ generate_fn.gen_token_ph[2][1] = pad_token_id
    /\ generate_fn.unfinished_sequences = (1 :> 0 @@ 2 :> 1)

\* the same on the last stage of the engine: a micro batch that finished goes through
\* another genstep and gets pad_token_id
C29_EnginePads ==
    /\ EngineGenerates
    /\ epc[num_stages - 1] = "exec"
    /\ \E mb \in MicroBatches :
          /\ Len(gen_token_ph[num_stages - 1][mb]) = 2
          /\ \A q \in Sequences :
                /\ gen_token_ph[num_stages - 1][mb][1][q] = eos_token_id
                /\ gen_token_ph[num_stages - 1][mb][2][q] = pad_token_id

(***************************************************************************)
(* The connectivity check of DeepSpeedPipelineEngine.__init__              *)
(* (_initialize_comm), every stage running it in its own process           *)
(***************************************************************************)
MaxCommStages == 5      \* pipeline stages of the connectivity check: 2 .. MaxCommStages

\* p2p.send(buf, peer) and p2p.recv(buf, peer)
p2p_send(peer) == [op |-> "send", peer |-> peer]
p2p_recv(peer) == [op |-> "recv", peer |-> peer]

\* every stage sends before it receives
initialize_comm_SendFirst(s) ==
    <<p2p_send(next_stage(s)), p2p_recv(prev_stage(s))>>

\* the p2p calls of _initialize_comm on stage s, in program order
initialize_comm(s) ==
    (IF s % 2 = 0
     THEN (IF ~is_last_stage(s) THEN <<p2p_send(next_stage(s))>> ELSE <<>>)
          \o (IF ~is_first_stage(s) THEN <<p2p_recv(prev_stage(s))>> ELSE <<>>)
     ELSE (IF ~is_first_stage(s) THEN <<p2p_recv(prev_stage(s))>> ELSE <<>>)
          \o (IF ~is_last_stage(s) THEN <<p2p_send(next_stage(s))>> ELSE <<>>))
    \o (IF is_first_stage(s) THEN <<p2p_recv(prev_stage(s))>> ELSE <<>>)
    \o (IF is_last_stage(s) THEN <<p2p_send(next_stage(s))>> ELSE <<>>)

\* the engines of n stages are being constructed, each about to call
\* _initialize_comm
CommInit ==
    /\ WorkerConstructed
    /\ \E n \in 2 .. MaxCommStages :
          /\ EngineFields("forward", n, 1, FALSE,
                          [max_new_tokens |-> 1, min_new_tokens |-> 0], {}, 0)
          /\ comm_init = [pc |-> [s \in 0 .. (n - 1) |-> "called"],
                          at |-> [s \in 0 .. (n - 1) |-> 1],
                          in_flight |-> {},
                          sent |-> [s \in 0 .. (n - 1) |-> 0],
                          received |-> [s \in 0 .. (n - 1) |-> 0]]
    /\ model_logits = AnyLogits
    /\ loss_fn_values = UnitLosses
    /\ genstep_io = NoGenstep
    /\ generate_fn = NoGenerate
    /\ train_step_fn = NoCall
    /\ worker_loop = NoCall
    /\ worker_server = NoCall

CommFrame ==
    UNCHANGED <<callvars, genstep_io, generate_fn, train_step_fn, worker_loop,
                worker_server, runvars, wallvars>>

\* the p2p call stage s is at, if any
CommAt(s, op) ==
    /\ comm_init.at[s] <= Len(initialize_comm(s))
    /\ initialize_comm(s)[comm_init.at[s]].op = op

CommPeer(s) == initialize_comm(s)[comm_init.at[s]].peer

\* stage s enters a blocking p2p.send: the tensor is offered to the peer
CommSend(s) ==
    /\ comm_init.pc[s] = "called"
    /\ CommAt(s, "send")
    /\ comm_init' = [comm_init EXCEPT !.pc[s] = "sending",
                                      !.in_flight = @ \cup {<<s, CommPeer(s)>>},
                                      !.sent[s] = @ + 1]
    /\ CommFrame

\* the blocking p2p.recv of stage s returns with the tensor its peer offers
CommRecv(s) ==
    /\ comm_init.pc[s] = "called"
    /\ CommAt(s, "recv")
    /\ <<CommPeer(s), s>> \in comm_init.in_flight
    /\ comm_init' = [comm_init EXCEPT !.in_flight = @ \ {<<CommPeer(s), s>>},
                                      !.received[CommPeer(s)] = @ + 1,
                                      !.at[s] = @ + 1]
    /\ CommFrame

\* the blocking p2p.send of stage s returns: the peer has taken the tensor
CommSendReturns(s) ==
    /\ comm_init.pc[s] = "sending"
    /\ <<s, CommPeer(s)>> \notin comm_init.in_flight
    /\ comm_init' = [comm_init EXCEPT !.pc[s] = "called", !.at[s] = @ + 1]
    /\ CommFrame

\* _initialize_comm returns on stage s
CommReturns(s) ==
    /\ comm_init.pc[s] = "called"
    /\ comm_init.at[s] > Len(initialize_comm(s))
    /\ comm_init' = [comm_init EXCEPT !.pc[s] = "returned"]
    /\ CommFrame

CommStep(s) ==
    /\ s \in Stages
    /\ \/ CommSend(s)
       \/ CommRecv(s)
       \/ CommSendReturns(s)
       \/ CommReturns(s)

CommNext == \E s \in 0 .. (MaxCommStages - 1) : CommStep(s)

SpecComm == CommInit /\ [][CommNext]_vars

\* every stage is a process of its own that keeps running
SpecCommFair ==
    SpecComm /\ \A s \in 0 .. (MaxCommStages - 1) : WF_vars(CommStep(s))

\* _initialize_comm has returned on every stage, every send taken by one receive
CommCompleted ==
    /\ \A s \in Stages : comm_init.pc[s] = "returned"
    /\ comm_init.in_flight = {}
    /\ \A s \in Stages : comm_init.sent[s] = 1 /\ comm_init.received[s] = 1

\* C30: with blocking sends and receives the connectivity check returns on
\* every stage, for every number of stages from 2 on: no tensor is received
\* more often than it was sent, and in the end every stage has sent one
\* tensor that its peer has received once, and nothing is in flight.
C30_ConnectivityCheckCompletes ==
    /\ [](\A s \in Stages : comm_init.received[s] <= comm_init.sent[s]
                            /\ comm_init.sent[s] <= 1)
    /\ <>[]CommCompleted

\* the check has completed on an odd number of stages greater than 2, where
\* the last stage is an even one
C30_Witness ==
    /\ num_stages = 3
    /\ CommCompleted

\* the last stage has sent its closing tensor to the first one, which takes it
C30_RingClosed ==
    /\ num_stages = 4
    /\ <<3, 0>> \in comm_init.in_flight
    /\ comm_init.at[0] = 2

(***************************************************************************)
(* The version of a Model over any number of inc_version calls             *)
(***************************************************************************)
\* C38: after n inc_version calls on a model whose version started at
\* (epoch 0, epoch_step 0, global_step 0), with steps_per_epoch S >= 1,
\* global_step = n, global_step = epoch * S + epoch_step and
\* 0 <= epoch_step < S.
C38_VersionInvariant ==
    train_step_fn.pc # "none" =>
        LET v == train_step_fn.version
            S == train_step_fn.ft_spec.steps_per_epoch
        IN /\ v.global_step = train_step_fn.inc_version_calls
           /\ v.global_step = v.epoch * S + v.epoch_step
           /\ 0 <= v.epoch_step /\ v.epoch_step < S

\* seven calls with two steps per epoch: three epochs ended, one step into the fourth
C38_Witness ==
    /\ train_step_fn.pc # "none"
    /\ train_step_fn.ft_spec.steps_per_epoch = 2
    /\ train_step_fn.inc_version_calls = 7
    /\ train_step_fn.version = [epoch |-> 3, epoch_step |-> 1, global_step |-> 7]

\* with one step per epoch every call ends an epoch
C38_EveryStepAnEpoch ==
    /\ train_step_fn.pc # "none"
    /\ train_step_fn.ft_spec.steps_per_epoch = 1
    /\ train_step_fn.version = [epoch |-> 3, epoch_step |-> 0, global_step |-> 3]

(***************************************************************************)
(* The terminate flag of a micro batch within one generate call            *)
(***************************************************************************)
\* stage s is inside _exec_schedule of a generate call
Generating(s) == EngineGenerates /\ s \in Stages /\ epc[s] = "exec"

\* no step of a stage that stays inside the call takes a flag from true to false
C37_Kept ==
    \A s \in Stages : \A mb \in MicroBatches :
       (Generating(s) /\ epc'[s] = "exec" /\ terminate[s][mb]) => terminate'[s][mb]

\* the flag a stage other than the last holds has been set by the last stage:
\* the last stage holds it still or has left the loop on its terminate_condition
C37_FromLastStage ==
    \A s \in Stages : \A mb \in MicroBatches :
       (Generating(s) /\ ~is_last_stage(s) /\ terminate[s][mb]) =>
          IF epc[num_stages - 1] = "exec" THEN terminate[num_stages - 1][mb]
          ELSE LeftLoop(num_stages - 1) /\ term_step[num_stages - 1] >= 0

\* C37: within one generate call the terminate flag of a micro batch is
\* monotone on every stage: once true it is not overwritten with false by a
\* later RecvActivation, RecvNextTokens or genstep for the micro batch; and a
\* stage other than the last holds terminate = true for a micro batch only if
\* the last stage has set it for that micro batch before.
C37_TerminateMonotone == [] C37_FromLastStage /\ [][C37_Kept]_vars

\* the first micro batch terminated with its first token (EOS on every row)
\* while the second goes on; the flag has gone round the ring, the last stage
\* has received it with the next activation and run genstep on it again
C37_Witness ==
    /\ EngineGenerates
    /\ num_micro_batches = 2
    /\ epc[num_stages - 1] = "exec"
    /\ Len(gen_token_ph[num_stages - 1][0]) = 2
    /\ \A q \in Sequences : gen_token_ph[num_stages - 1][0][1][q] = eos_token_id
    /\ terminate[num_stages - 1][0]
    /\ ~terminate[num_stages - 1][1]
    /\ terminate[0][0]

(***************************************************************************)
(* The dataset-owning worker under a master that sends fetch and store     *)
(* requests in any order and with any list of buffer indices               *)
(***************************************************************************)
MaxStoreIndices == 2    \* buffer indices of a store request: 0 .. MaxStoreIndices

StoreData == UNION {[1 .. n -> BufIdx] : n \in 0 .. MaxStoreIndices}

DataRequests(r) ==
    {Payload(r, "__data0__", "fetch", <<>>, <<>>, <<>>)}
    \cup {Payload(r, "__data0__", "store", data, <<>>, <<>>) : data \in StoreData}

DataInit ==
    /\ WorkerConstructed
    /\ EngineConstructed("forward", 2, 1, FALSE, [max_new_tokens |-> 1, min_new_tokens |-> 0])

MasterSendData ==
    /\ UNCHANGED evars
    /\ next_id < MaxRequests
    /\ \E req \in DataRequests(next_id + 1) :
          /\ inbox' = Append(inbox, req)
          /\ sent' = Append(sent, req)
    /\ next_id' = next_id + 1
    /\ UNCHANGED <<acked, posted, wvars>>

DataNext == MasterSendData \/ MasterSendAck \/ WorkerNext

SpecData == DataInit /\ [][DataNext]_vars

\* this step of the work loop runs the operation of a request with this handle name
OperationOf(handle_name) ==
    /\ wpc = "work" /\ work_left > 0 /\ request_queue # <<>>
    /\ ~Head(request_queue).handled
    /\ Head(request_queue).request.pre_hooks = <<>>
    /\ Head(request_queue).request.handle_name = handle_name
    /\ <<request_queue, wpc>>' # <<request_queue, wpc>>

OperationRequest == Head(request_queue).request

\* the operation of this step has raised
Rejected ==
    /\ wpc' = "crashed"
    /\ exception'.request = ReqNo(OperationRequest)
    /\ <<dataset, fetched_data, data_owner_storage>>' =
          <<dataset, fetched_data, data_owner_storage>>

Pending == dataset.fetched_data # NoSample

StoresDone ==
    Cardinality({r \in 1 .. next_id : Logged(r, OpEvent("store"))})

C35_Fetch ==
    OperationOf("fetch") =>
       IF Pending THEN Rejected
       ELSE wpc' # "crashed" =>
               /\ dataset'.fetched_data = dataset.dict_sample
               /\ dataset'.fetched_data # NoSample
               /\ dataset'.global_step = dataset.global_step + 1
               /\ data_owner_storage' = data_owner_storage

C35_Store ==
    OperationOf("store") =>
       IF ~Pending \/ Len(OperationRequest.data) # Len(dataset.fetched_data) THEN Rejected
       ELSE /\ wpc' # "crashed"
            /\ data_owner_storage' = data_owner_storage \cup
                  {<<OperationRequest.data[i], k>> :
                      i \in 1 .. Len(dataset.fetched_data), k \in {"k1"}}
            /\ dataset'.fetched_data = NoSample
            /\ dataset'.global_step = dataset.global_step

C35_OnlyByFetchAndStore ==
    /\ dataset'.global_step # dataset.global_step => OperationOf("fetch")
    /\ dataset'.fetched_data # dataset.fetched_data =>
          OperationOf("fetch") \/ OperationOf("store")

C35_Alternation ==
    /\ dataset.global_step - StoresDone = (IF Pending THEN 1 ELSE 0)
    /\ Pending <=> fetched_data

\* C35: on a dataset-owning worker fetch and store strictly alternate,
\* starting with fetch: a fetch while a fetched batch has not been stored is
\* rejected (it raises), a store is rejected unless a fetch is pending and it
\* brings as many buffer indices as the pending batch has sequences, a store
\* puts the tensors of each sequence into data_owner_storage under (given
\* buffer index, key) and clears the pending batch, and the dataset global
\* step grows by exactly 1 with every fetch and with nothing else.
C35_FetchStoreAlternate ==
    /\ [] C35_Alternation
    /\ [][C35_Fetch /\ C35_Store /\ C35_OnlyByFetchAndStore]_vars

\* two fetches, each stored before the next
C35_Witness ==
    /\ dataset.global_step = 2
    /\ StoresDone = 2
    /\ ~Pending
    /\ <<0, "k1">> \in data_owner_storage
    /\ wpc # "crashed"

\* a second fetch was rejected while the first batch was pending
C35_FetchRejected ==
    /\ wpc = "crashed"
    /\ exception.type = "AssertionError"
    /\ sent[exception.request].handle_name = "fetch"
    /\ Pending
    /\ dataset.global_step = 1

(***************************************************************************)
(* The prefetched sample                                                   *)
(***************************************************************************)
FetchReplies == {i \in 1 .. Len(posted) : posted[i].handle_name = "fetch"}

C36_DistinctBatches ==
    \A i, j \in FetchReplies :
       /\ posted[i].data.data # NoSample
       /\ i < j => <<posted[i].data.epoch, posted[i].data.epoch_step>> #
                   <<posted[j].data.epoch, posted[j].data.epoch_step>>

\* the epoch counter moves only when the exhausted loader is restarted, by 1
C36_EpochCounts ==
    /\ dataset'.epoch # dataset.epoch =>
          /\ wpc = "idle" /\ dataset.dict_sample = NoSample /\ dataset.data_generator = <<>>
          /\ dataset'.epoch = dataset.epoch + 1
    /\ (dataset.data_generator = <<>> /\ dataset'.data_generator # <<>>) =>
          dataset'.epoch = dataset.epoch + 1

C36_SampleAvailable ==
    (OperationOf("fetch") /\ ~Pending) => dataset.dict_sample # NoSample /\ wpc' # "crashed"

\* C36: whenever a fetch operation executes (no fetched batch is pending) a
\* prefetched sample is available, also for the second fetch within one
\* poll; every fetch response carries a batch no earlier response carried,
\* with its epoch and epoch step; the epoch counter grows by exactly 1 each
\* time the exhausted data loader is restarted.
C36_FetchAlwaysServed ==
    /\ [] C36_DistinctBatches
    /\ [][C36_SampleAvailable /\ C36_EpochCounts]_vars

\* what holds of it: the responses and the epoch counter
C36_ResponsesAndEpochs == [] C36_DistinctBatches /\ [][C36_EpochCounts]_vars

\* fetch, store and fetch ran in one poll and the second fetch found no sample
C36_SecondFetchFails ==
    /\ wpc = "crashed"
    /\ sent[exception.request].handle_name = "fetch"
    /\ ~Pending
    /\ dataset.dict_sample = NoSample
    /\ dataset.global_step = 1
    /\ StoresDone = 1

\* the loader was exhausted and restarted
C36_SecondEpoch == dataset.epoch = 1 /\ dataset.global_step = DatasetBatches

(***************************************************************************)
(* A worker whose shards may or may not be dp-heads                        *)
(***************************************************************************)
ShardConfigs ==
    {[model_rpcs |-> {"inf", "train"}, dp_head |-> h] : h \in [Models -> BOOLEAN]}

\* the "__data0__" requests go to the worker that subscribed to them (has_dataset)
ShardRequests(r) ==
    LET rpc(name) == {Payload(r, RpcModel(name), RpcHandleName(name), <<>>, pre, <<>>) :
                         pre \in PreHookSeqs(name)}
    IN  IF has_dataset
        THEN CASE (r - 1) % 4 = 0 -> {Payload(r, "__data0__", "fetch", <<>>, <<>>, <<>>)}
               [] (r - 1) % 4 = 1 ->
                     {Payload(r, "__data0__", "store", <<b>>, <<>>, <<>>) : b \in BufIdx}
               [] (r - 1) % 4 = 2 -> rpc("inf")
               [] OTHER -> rpc("train")
        ELSE IF r % 2 = 1 THEN rpc("inf") ELSE rpc("train")

ShardInit ==
    /\ \E cfg \in ShardConfigs : WorkerConstructedFor(MaxRequests, cfg)
    /\ EngineConstructed("forward", 2, 1, FALSE, [max_new_tokens |-> 1, min_new_tokens |-> 0])

MasterSendShard ==
    /\ UNCHANGED evars
    /\ next_id < MaxRequests
    /\ \E req \in ShardRequests(next_id + 1) :
          /\ inbox' = Append(inbox, req)
          /\ sent' = Append(sent, req)
    /\ next_id' = next_id + 1
    /\ UNCHANGED <<acked, posted, wvars>>

ShardNext == MasterSendShard \/ MasterSendAck \/ WorkerNext

SpecShard == ShardInit /\ [][ShardNext]_vars

\* this step posts the response of a request whose result is a packed named-array
PostsNamedArray ==
    /\ wpc = "post"
    /\ reply_queue # <<>>
    /\ Head(reply_queue).res.kind = "namedarray"
    /\ posted' # posted

ProducedEntries(res) ==
    {<<res.buffer_indices[i], k>> : i \in 1 .. Len(res.buffer_indices), k \in res.keys}

C31_Post ==
    PostsNamedArray =>
       LET e == Head(reply_queue) IN
       /\ posted' = Append(posted, Reply(e.request.request_id, e.request.handle_name, e.res))
       /\ e.res.keys = OutputKeys(e.request.handle_name)
       /\ Len(e.res.buffer_indices) > 0
       /\ data_owner_storage' =
             IF config.dp_head[e.request.handler]
             THEN data_owner_storage \cup ProducedEntries(e.res)
             ELSE data_owner_storage

\* an entry of a produced key is in storage only on the producer's dp-head
C31_OnlyOnDpHead ==
    \A e \in data_owner_storage : config.dp_head[producer_name(e[2])]

\* C31: the response posted for a compute request whose result is a packed
\* named-array advertises the result's keys and buffer indices on every
\* worker, and the step that posts it adds (buffer index, key) for each
\* buffer index and key of the result to data_owner_storage if the worker is
\* the dp-head of the request's model and leaves the storage as it is
\* otherwise; a worker that is not a dp-head never holds an entry.
C31_StoredOnDpHeadOnly == [] C31_OnlyOnDpHead /\ [][C31_Post]_vars

\* a worker that is not the dp-head of the model of "inf" has posted the
\* response of an inference and holds nothing
C31_Witness ==
    /\ ~config.dp_head[RpcModel("inf")]
    /\ \E i \in 1 .. Len(posted) :
          /\ posted[i].handle_name = "inference"
          /\ posted[i].data.kind = "namedarray"
          /\ posted[i].data.keys = {"k2"}
          /\ posted[i].data.buffer_indices = <<0>>
    /\ data_owner_storage = {}

\* the dp-head has posted the response of an inference and holds its output
C31_DpHeadStores ==
    /\ config.dp_head[RpcModel("inf")]
    /\ \E i \in 1 .. Len(posted) : posted[i].handle_name = "inference"
    /\ <<0, "k2">> \in data_owner_storage

(***************************************************************************)
(* Two RPCs with the same handle name on one worker: "inf" (model M1) and  *)
(* "ref" (model M0) are both inference calls and share the input queue     *)
(* self.__compute_input_queues["inference"].                               *)
(***************************************************************************)
QueueConfig == [model_rpcs |-> {"inf", "ref", "train"}, dp_head |-> [m \in Models |-> TRUE]]

\* the data transfer alone, after a parameter sync, or before it
QueuePreHooks(rpc) ==
    LET dt(b) == DataTransferHook(rpc, b)
        ps == ParamSyncHook("M2", RpcModel(rpc))
    IN  UNION {{<<dt(b)>>, <<ps, dt(b)>>, <<dt(b), ps>>} : b \in BufIdx}

QueueRequests(r) ==
    IF r = 1 THEN {Payload(r, "__data0__", "fetch", <<>>, <<>>, <<>>)}
    ELSE IF r = 2 THEN {Payload(r, "__data0__", "store", <<b>>, <<>>, <<>>) : b \in BufIdx}
    ELSE UNION {{Payload(r, RpcModel(rpc), RpcHandleName(rpc), <<>>, pre, <<>>) :
                    pre \in QueuePreHooks(rpc)} : rpc \in {"inf", "ref"}}

QueueInit ==
    /\ WorkerConstructedFor(MaxRequests, QueueConfig)
    /\ EngineConstructed("forward", 2, 1, FALSE, [max_new_tokens |-> 1, min_new_tokens |-> 0])

MasterSendRpc ==
    /\ UNCHANGED evars
    /\ next_id < MaxRequests
    /\ \E req \in QueueRequests(next_id + 1) :
          /\ inbox' = Append(inbox, req)
          /\ sent' = Append(sent, req)
    /\ next_id' = next_id + 1
    /\ UNCHANGED <<acked, posted, wvars>>

QueueNext == MasterSendRpc \/ MasterSendAck \/ WorkerNext

SpecQueues == QueueInit /\ [][QueueNext]_vars

\* the entry is the one the data-transfer pre-hook of request r has put
OwnEntry(r, entry) ==
    \E i \in 1 .. Len(sent[r].pre_hooks) :
       /\ sent[r].pre_hooks[i].hook = "data_transfer"
       /\ sent[r].pre_hooks[i].rpc_name = entry.rpc_name
       /\ sent[r].pre_hooks[i].buffer_indices = entry.buffer_indices

\* the operation of this step gets past its assertion and reads its input queue
ReadsInput(h) == OperationOf(h) /\ ~model_is_handle[OperationRequest.handler]

C33_ConsumesOne ==
    \A h \in QueuedHandleNames :
       /\ ReadsInput(h) =>
             /\ compute_input_queues[h] # <<>>
             /\ compute_input_queues'[h] = Tail(compute_input_queues[h])
       /\ \A g \in QueuedHandleNames \ {h} :
             OperationOf(h) => compute_input_queues'[g] = compute_input_queues[g]

C33_ConsumesOwn ==
    \A h \in QueuedHandleNames :
       (ReadsInput(h) /\ compute_input_queues[h] # <<>>) =>
          OwnEntry(ReqNo(OperationRequest), Head(compute_input_queues[h]))

\* C33: each inference, train_step or generate operation consumes exactly
\* one entry of its input queue, the queue is not empty when it runs, and the
\* entry is the one the data-transfer pre-hook of the same request has put,
\* also when requests with the same handle name for different models and
\* with different numbers of pre-hooks are interleaved in the work queue.
C33_OwnInput == [][C33_ConsumesOne /\ C33_ConsumesOwn]_vars

\* what holds of it: one entry per operation, and never an empty queue
C33_OneEntryEach == [][C33_ConsumesOne]_vars

\* the request at the head of the work queue is about to run its inference
\* on the input that the other RPC's data transfer has queued
C33_WrongHead ==
    /\ AtOperation
    /\ Head(request_queue).request.handle_name = "inference"
    /\ ~model_is_handle[Head(request_queue).request.handler]
    /\ compute_input_queues["inference"] # <<>>
    /\ RpcModel(Head(compute_input_queues["inference"]).rpc_name) #
          Head(request_queue).request.handler

(***************************************************************************)
(* The bounded queues under a master that keeps sending: after fetch and   *)
(* store, hook-only empty requests and inference requests of the RPC "ref" *)
(* without waiting for responses.  It posts its requests in one burst,     *)
(* before the worker's poll reads the first of them, and then answers the  *)
(* SYNs with ACKs in the order of the requests.                            *)
(***************************************************************************)
MaxFlood == 10      \* requests the master sends in one run

FloodRequests(r) ==
    IF r = 1 THEN {Payload(r, "__data0__", "fetch", <<>>, <<>>, <<>>)}
    ELSE IF r = 2 THEN {Payload(r, "__data0__", "store", <<0>>, <<>>, <<>>)}
    ELSE {Payload(r, "M0", "empty", <<>>, <<>>, <<>>),
          Payload(r, RpcModel("ref"), RpcHandleName("ref"), <<>>,
                  <<DataTransferHook("ref", 0)>>, <<>>)}

FloodInit ==
    /\ WorkerConstructedFor(MaxFlood, QueueConfig)
    /\ EngineConstructed("forward", 2, 1, FALSE, [max_new_tokens |-> 1, min_new_tokens |-> 0])

MasterFlood ==
    /\ UNCHANGED evars
    /\ wpc = "idle"
    /\ posted = <<>>
    /\ next_id < MaxFlood
    /\ \E req \in FloodRequests(next_id + 1) :
          /\ inbox' = Append(inbox, req)
          /\ sent' = Append(sent, req)
    /\ next_id' = next_id + 1
    /\ UNCHANGED <<acked, posted, wvars>>

MasterFloodAck ==
    /\ UNCHANGED evars
    /\ \E r \in 1 .. next_id :
          /\ r \notin acked
          /\ (1 .. (r - 1)) \subseteq acked
          /\ \E i \in 1 .. Len(posted) :
                posted[i].handle_name = "syn" /\ posted[i].request_id = SynId(r)
          /\ inbox' = Append(inbox, AckPayload(r))
          /\ acked' = acked \cup {r}
    /\ UNCHANGED <<next_id, sent, posted, wvars>>

FloodNext == MasterFlood \/ MasterFloodAck \/ WorkerNext

SpecFlood == FloodInit /\ [][FloodNext]_vars

\* __maybe_receive_requests is about to put a request into the work queue
PutsRequest == wpc = "promote" /\ request_cache # <<>> /\ AckPresent(Head(request_cache))

WorkItem == Head(request_queue)
Working == wpc = "work" /\ work_left > 0 /\ request_queue # <<>>

\* __model_poll_step is about to put a handled request into the reply queue
PutsReply == Working /\ WorkItem.handled /\ Len(WorkItem.request.post_hooks) = 0

\* the data-transfer hook is about to put its batch into the input queue of h
PutsInput(h) ==
    /\ Working
    /\ Len(WorkItem.request.pre_hooks) > 0
    /\ PopHook(WorkItem.request.pre_hooks)[1].hook = "data_transfer"
    /\ RpcHandleName(PopHook(WorkItem.request.pre_hooks)[1].rpc_name) = h

\* C34: whenever an entry is put into the work queue, the reply queue or an
\* input queue, the queue is not full.
C34_NeverFull ==
    /\ PutsRequest => Len(request_queue) < RequestQueueSize
    /\ PutsReply => Len(reply_queue) < ReplyQueueSize
    /\ \A h \in DOMAIN compute_input_queues :
          PutsInput(h) => Len(compute_input_queues[h]) < ComputeQueueSize

\* nine requests of one burst are acknowledged within one poll
C34_WorkQueueFull == PutsRequest /\ Len(request_queue) = RequestQueueSize
\* five inference requests run their data transfers before the first of them
\* runs its operation
C34_InputQueueFull ==
    PutsInput("inference") /\ Len(compute_input_queues["inference"]) = ComputeQueueSize

(***************************************************************************)
(* Progress of the requests in the work queue.  Worker.run keeps calling   *)
(* _poll, and the master answers every SYN with the ACK.                   *)
(***************************************************************************)
SpecQueuesFair ==
    QueueInit /\ [][QueueNext]_vars /\ WF_vars(WorkerNext) /\ WF_vars(MasterSendAck)

\* the response of request r is posted, once, with its request_id and handle_name
Answered(r) ==
    /\ RepliesPosted(r) = 1
    /\ \E i \in 1 .. Len(posted) :
          /\ posted[i].request_id = ReqId(r)
          /\ posted[i].handle_name = sent[r].handle_name
          /\ posted[i].handler = "master"

\* a hook or an operation has raised
Raised == wpc = "crashed"

C32_AtMostOne == \A r \in 1 .. MaxRequests : RepliesPosted(r) <= 1

\* request r was put into the work queue: it has left the stream and the cache
Promoted(r) == r <= next_id /\ ~InInbox(ReqId(r)) /\ ~InCache(r)

C32_PromotedSince ==
    \A r \in 1 .. MaxRequests :
       /\ InWorkQueue(r) => Promoted(r)
       /\ InWorkQueue(r) => RepliesQueued(r) = 0 /\ RepliesPosted(r) = 0

\* A promoted request stays promoted and an answered one stays answered, so
\* this says that each promoted request is eventually answered unless a hook
\* or an operation raises.
C32_Progress == []<>(Raised \/ \A r \in 1 .. MaxRequests : Promoted(r) => Answered(r))

====
